---- MODULE Spec2Model ----
(***************************************************************************)
(* Model of the 4e compendium pipeline:                                    *)
(*   build_compendium_db.py      builds the canonical store                *)
(*   extract_grants.py           extracts the rule graph (edges)           *)
(*   resolve_compendium_ids.py   resolves external references, writes the  *)
(*                               audit log and the edges' resolved ids     *)
(*   generate_character_sheet.py name lookup used by report rendering      *)
(*                                                                         *)
(* Text is modelled as TLA+ strings, handled character by character with   *)
(* Len, SubSeq and \o.  The only whitespace character that occurs in the   *)
(* modelled inputs is the space.  Python's None is the value None below;   *)
(* no modelled text contains the character "<".                            *)
(***************************************************************************)
EXTENDS Integers, Sequences, FiniteSets, TLC

None == "<None>"

\* Python truthiness of an optional string: None and "" are falsy.
Truthy(x) == x # None /\ x # ""

SetMin(S) == CHOOSE m \in S : \A n \in S : m <= n

\* ------------------------------------------------------------------------
\* Character-level string primitives (Python str methods and re patterns)
\* ------------------------------------------------------------------------

UpperChars == "ABCDEFGHIJKLMNOPQRSTUVWXYZ"
LowerChars == "abcdefghijklmnopqrstuvwxyz"
DigitChars == "0123456789"

\* Python slicing: positions outside the string are clamped.
Slice(s, a, b) ==
    LET lo == IF a < 1 THEN 1 ELSE a
        hi == IF b > Len(s) THEN Len(s) ELSE b
    IN  IF lo > hi THEN "" ELSE SubSeq(s, lo, hi)

CharAt(s, i) == Slice(s, i, i)

Prefix(s, n) == Slice(s, 1, n)

Suffix(s, p) == Slice(s, p, Len(s))

\* 1-based position of the first occurrence of sub in s, 0 when absent
\* (str.find returns this minus one).
Find(s, sub) ==
    LET P == { i \in 1..(Len(s) - Len(sub) + 1) : Slice(s, i, i + Len(sub) - 1) = sub }
    IN  IF P = {} THEN 0 ELSE SetMin(P)

\* 1-based position of the last occurrence of sub in s, 0 when absent.
RFind(s, sub) ==
    LET P == { i \in 1..(Len(s) - Len(sub) + 1) : Slice(s, i, i + Len(sub) - 1) = sub }
    IN  IF P = {} THEN 0 ELSE CHOOSE m \in P : \A n \in P : n <= m

Contains(s, sub) == Find(s, sub) # 0

StartsWith(s, p) == Len(p) <= Len(s) /\ Prefix(s, Len(p)) = p

EndsWith(s, p) == Len(p) <= Len(s) /\ Suffix(s, Len(s) - Len(p) + 1) = p

\* The set of the characters of a string
CharSet(alphabet) == { CharAt(alphabet, i) : i \in 1..Len(alphabet) }

UpperSet == CharSet(UpperChars)
LowerSet == CharSet(LowerChars)
DigitSet == CharSet(DigitChars)

IsSpace(c) == c = " "

IsDigit(c) == c \in DigitSet

IsLower(c) == c \in LowerSet

IsUpper(c) == c \in UpperSet

\* \w of Python's re: letters, digits and the underscore.
IsWordChar(c) == IsLower(c) \/ IsUpper(c) \/ IsDigit(c) \/ c = "_"

AllChars(s, P(_)) == \A i \in 1..Len(s) : P(CharAt(s, i))

\* str.isdigit for the ASCII inputs modelled: non-empty and all digits.
isdigit(s) == Len(s) > 0 /\ AllChars(s, IsDigit)

LowerChar(c) ==
    IF IsUpper(c) THEN CharAt(LowerChars, Find(UpperChars, c)) ELSE c

RECURSIVE lower(_)
lower(s) == IF Len(s) = 0 THEN "" ELSE LowerChar(CharAt(s, 1)) \o lower(Tail(s))

\* str.lstrip() / str.rstrip() / str.strip(): drop leading / trailing
\* whitespace.
RECURSIVE lstrip(_)
lstrip(s) == IF Len(s) > 0 /\ IsSpace(CharAt(s, 1)) THEN lstrip(Tail(s)) ELSE s

RECURSIVE rstrip(_)
rstrip(s) ==
    IF Len(s) > 0 /\ IsSpace(CharAt(s, Len(s))) THEN rstrip(Prefix(s, Len(s) - 1)) ELSE s

strip(s) == rstrip(lstrip(s))

\* re.sub(r"\s+", " ", s): every run of whitespace becomes one space.
RECURSIVE CollapseSpaces(_)
CollapseSpaces(s) ==
    IF Len(s) = 0 THEN ""
    ELSE IF IsSpace(CharAt(s, 1)) /\ Len(s) > 1 /\ IsSpace(CharAt(s, 2))
         THEN CollapseSpaces(Tail(s))
         ELSE CharAt(s, 1) \o CollapseSpaces(Tail(s))

\* str.replace(sub, "", 1): remove the first occurrence of sub.
RemoveFirst(s, sub) ==
    LET p == Find(s, sub)
    IN  IF p = 0 THEN s ELSE Prefix(s, p - 1) \o Suffix(s, p + Len(sub))

\* re.sub(pattern + "$", "", s) for a pattern that cannot match the empty
\* string: the match is the leftmost position whose whole suffix matches.
StripSuffix(s, Matches(_)) ==
    LET P == { p \in 1..Len(s) : Matches(Suffix(s, p)) }
    IN  IF P = {} THEN s ELSE Prefix(s, SetMin(P) - 1)

\* Number of leading whitespace characters of t
LeadingSpaces(t) == Len(t) - Len(lstrip(t))

\* t matches \s* body \s* or, with needSpace, \s+ body \s*, for a body
\* pattern whose matches neither start nor end with whitespace: the body
\* is then t between its leading and its trailing whitespace.
Spaced(t, needSpace, Body(_)) ==
    /\ needSpace => LeadingSpaces(t) >= 1
    /\ Body(strip(t))

\* ------------------------------------------------------------------------
\* resolve_compendium_ids.py: type tables and direct derivation
\* ------------------------------------------------------------------------

\* XML type suffix -> <<compendium table, id prefix>>
TYPE_MAP ==
    ("POWER" :> <<"powers", "power">>) @@
    ("FEAT" :> <<"feats", "feat">>) @@
    ("CLASS" :> <<"classes", "class">>) @@
    ("RACE" :> <<"races", "race">>) @@
    ("MAGIC_ITEM" :> <<"items", "item">>) @@
    ("ITEM" :> <<"items", "item">>) @@
    ("PARAGON_PATH" :> <<"paragon_paths", "paragonpath">>) @@
    ("EPIC_DESTINY" :> <<"epic_destinies", "epicdestiny">>) @@
    ("THEME" :> <<"themes", "theme">>) @@
    ("RITUAL" :> <<"rituals", "ritual">>) @@
    ("BACKGROUND" :> <<"backgrounds", "background">>) @@
    ("DEITY" :> <<"deities", "deity">>) @@
    ("COMPANION" :> <<"companions", "companion">>) @@
    ("RACIAL_TRAIT" :> <<None, None>>) @@
    ("CLASS_FEATURE" :> <<None, None>>) @@
    ("GRANTS" :> <<None, None>>) @@
    ("BUILD_SUGGESTIONS" :> <<None, None>>) @@
    ("INTERNAL" :> <<None, None>>)

\* For name search: XML types that match several compendium categories.
TYPE_GROUP_PREFIXES ==
    ("MAGIC_ITEM" :> <<"item", "implement", "armor", "weapon", "poison">>) @@
    ("ITEM" :> <<"item", "implement", "armor", "weapon", "poison">>) @@
    ("COMPANION" :> <<"companion", "associate">>) @@
    ("FAMILIAR" :> <<"companion", "associate">>) @@
    ("ASSOCIATE" :> <<"companion", "associate">>)

FMP == "ID_FMP_"

\* "_".join(xml_id.split("_")[:2]), or the (truncated) id when it has no "_".
NonFmpPrefix(xml_id) ==
    LET p1 == Find(xml_id, "_")
    IN  IF p1 = 0
        THEN IF Len(xml_id) > 30 THEN Prefix(xml_id, 30) \o "..." ELSE xml_id
        ELSE LET p2 == Find(Suffix(xml_id, p1 + 1), "_")
             IN  IF p2 = 0 THEN xml_id ELSE Prefix(xml_id, p1 + p2 - 1)

Derived(c, t, u) == [comp_id |-> c, table |-> t, unmappable |-> u]

\* Returns (compendium_id, compendium_table, unmappable_reason).
xml_to_compendium_id(xml_id) ==
    IF ~Truthy(xml_id) THEN Derived(None, None, "empty_or_invalid")
    ELSE IF ~Contains(xml_id, FMP)
    THEN Derived(None, None, "non-FMP prefix (" \o NonFmpPrefix(xml_id) \o ")")
    ELSE
      LET rest == RemoveFirst(xml_id, FMP)
          cut  == RFind(rest, "_")
          type_part == Prefix(rest, cut - 1)
          num_part  == Suffix(rest, cut + 1)
      IN  IF cut = 0 THEN Derived(None, None, "unparseable format")
          ELSE IF ~isdigit(num_part) THEN Derived(None, None, "no numeric suffix")
          ELSE IF type_part \notin DOMAIN TYPE_MAP \/ TYPE_MAP[type_part][1] = None
          THEN Derived(None, None, "unknown type (" \o type_part \o ")")
          ELSE Derived(TYPE_MAP[type_part][2] \o num_part, TYPE_MAP[type_part][1], None)

\* ------------------------------------------------------------------------
\* resolve_compendium_ids.py: name_search_variants
\* ------------------------------------------------------------------------

InSeq(x, seq) == \E i \in 1..Len(seq) : seq[i] = x

\* The regular expressions' bodies (between the leading \s and trailing \s*)
IsParenGroup(t) ==       \* \([^)]*\)
    /\ Len(t) >= 2 /\ CharAt(t, 1) = "(" /\ CharAt(t, Len(t)) = ")"
    /\ ~Contains(Slice(t, 2, Len(t) - 1), ")")

IsBracketGroup(t) ==     \* \[[^\]]*\]
    /\ Len(t) >= 2 /\ CharAt(t, 1) = "[" /\ CharAt(t, Len(t)) = "]"
    /\ ~Contains(Slice(t, 2, Len(t) - 1), "]")

IsPlusN(t) ==            \* \+\d+
    Len(t) >= 2 /\ CharAt(t, 1) = "+" /\ AllChars(Tail(t), IsDigit)

MatchParen(t) == Spaced(t, FALSE, IsParenGroup)

MatchBracket(t) == Spaced(t, FALSE, IsBracketGroup)

MatchPlusN(t) == Spaced(t, FALSE, IsPlusN)

\* re.sub(r"\s*\([^)]*\)\s*$", "", s)
StripParen(s) == StripSuffix(s, MatchParen)

\* re.sub(r"\s*\[[^\]]*\]\s*$", "", s)
StripBracket(s) == StripSuffix(s, MatchBracket)

\* StripPlusN leaving the trailing "+N" in place
StripPlusN_Keep(s) == s

\* re.sub(r"\s*\+\d+\s*$", "", s)
StripPlusN(s) == StripSuffix(s, MatchPlusN)

\* re.sub(r"\s+" + word + r"\s*$", "", s) for a literal word without
\* whitespace at either end: the word must end where the trailing
\* whitespace of s begins, and the match starts with the run of
\* whitespace in front of it.
StripWord(s, word) ==
    LET r == rstrip(s)
        q == rstrip(Prefix(r, Len(r) - Len(word)))
    IN  IF EndsWith(r, word) /\ Len(q) < Len(r) - Len(word) THEN q ELSE s

\* re.sub(r"\s+secondary\s+" + word + r"\s*$", "", s)
StripSecondary(s, word) ==
    LET r == StripWord(s, word)
    IN  IF r # s /\ StripWord(r, "secondary") # r THEN StripWord(r, "secondary") ELSE s

\* re.sub(r"([a-z])([A-Z])", r"\1 \2", s)
RECURSIVE CamelSplit(_)
CamelSplit(s) ==
    IF Len(s) < 2 THEN s
    ELSE IF IsLower(CharAt(s, 1)) /\ IsUpper(CharAt(s, 2))
         THEN CharAt(s, 1) \o " " \o CamelSplit(Tail(s))
         ELSE CharAt(s, 1) \o CamelSplit(Tail(s))

\* re.sub(r"\b" + word + r"\b", "", s), scanning from position i
RECURSIVE RemoveWordFrom(_, _, _)
RemoveWordFrom(s, word, i) ==
    IF i > Len(s) THEN ""
    ELSE IF /\ Slice(s, i, i + Len(word) - 1) = word
            /\ (i = 1 \/ ~IsWordChar(CharAt(s, i - 1)))
            /\ (i + Len(word) > Len(s) \/ ~IsWordChar(CharAt(s, i + Len(word))))
         THEN RemoveWordFrom(s, word, i + Len(word))
         ELSE CharAt(s, i) \o RemoveWordFrom(s, word, i + 1)

RemoveWord(s, word) == RemoveWordFrom(s, word, 1)

\* The elements of seq at the positions in idx, in their order in seq
Select(seq, idx) ==
    LET nth(k) == CHOOSE i \in idx : Cardinality({ j \in idx : j < i }) = k - 1
    IN  [k \in 1..Cardinality(idx) |-> seq[nth(k)]] \o <<>>

\* variants = [first], then add(v) for each v of vs in turn: normalise
\* whitespace, append when non-empty and not seen before
AddAll(first, vs) ==
    LET w == [i \in 1..Len(vs) |-> strip(CollapseSpaces(vs[i]))] \o <<>>
    IN  << first >> \o
        Select(w, { i \in 1..Len(w) :
                      w[i] # "" /\ w[i] # first /\ \A j \in 1..(i - 1) : w[j] # w[i] })

COMPOUND_SUBS == <<"sword", "blade", "armor", "shield", "weapon", "staff", "rod", "orb", "cloak">>
TYPE_WORDS == <<"attack", "power", "(daily)", "(encounter)", "flight", "teleport", "strike", "buffet">>
TIER_WORDS == <<"epic", "heroic", "paragon">>
EQUIPMENT_WORDS == <<"armor", "weapon", "shield", "ring", "boots", "cloak">>
IMPLEMENT_WORDS == <<"rod", "staff", "orb", "wand">>
IMPLEMENT_TYPES == <<"orb", "rod", "staff", "wand", "tome", "totem", "holy symbol", "ki focus">>

\* Compound word split: "soulsword" -> "soul sword"; "" when not applicable
CompoundSplit(s, sub) ==
    LET idx == Find(s, sub)
    IN  IF Contains(s, sub) /\ ~(Contains(s, " " \o sub) \/ Contains(s, sub \o " ")) /\ idx > 1
        THEN Prefix(s, idx - 1) \o " " \o Suffix(s, idx)
        ELSE ""

\* The two variants of one equipment / implement word: with and without +N
WordPair(s, no_plus, word) ==
    << strip(StripWord(s, word)), strip(StripWord(no_plus, word)) >>

RECURSIVE Flatten(_)
Flatten(ss) == IF Len(ss) = 0 THEN <<>> ELSE Head(ss) \o Flatten(Tail(ss))

\* Generate name variants to try against compendium (exact first).
name_search_variants(name) ==
    LET s == lower(strip(name))
        base == strip(StripParen(s))
        spaced == lower(strip(CamelSplit(strip(name))))
        attack_stripped == strip(StripWord(s, "attack"))
        base_no_plus == strip(StripPlusN(s))
        impl_prefix == strip(Prefix(base_no_plus, Len(base_no_plus) - Len(" implement")))
        candidates ==
            << base,
               strip(StripBracket(s)),
               strip(StripBracket(base)),
               StripPlusN(base),
               StripPlusN(s),
               spaced,
               IF spaced # base THEN StripParen(spaced) ELSE "" >>
            \o [i \in 1..Len(COMPOUND_SUBS) |-> CompoundSplit(s, COMPOUND_SUBS[i])]
            \o [i \in 1..Len(TYPE_WORDS) |-> strip(StripWord(s, TYPE_WORDS[i]))]
            \o (IF attack_stripped # s /\ ~StartsWith(attack_stripped, "form of")
                THEN << "form of the " \o attack_stripped, "form of " \o attack_stripped >>
                ELSE <<>>)
            \o [i \in 1..Len(TIER_WORDS) |-> strip(CollapseSpaces(RemoveWord(s, TIER_WORDS[i])))]
            \o Flatten([i \in 1..Len(EQUIPMENT_WORDS) |-> WordPair(s, base_no_plus, EQUIPMENT_WORDS[i])])
            \o << StripSecondary(s, "power"), StripSecondary(s, "attack") >>
            \o (IF Contains(s, " form ")
                THEN << strip(Prefix(s, Find(s, " form ") - 1) \o " form") >>
                ELSE <<>>)
            \o Flatten([i \in 1..Len(IMPLEMENT_WORDS) |-> WordPair(s, base_no_plus, IMPLEMENT_WORDS[i])])
            \o (IF Contains(s, " - ") THEN << base_no_plus >> ELSE <<>>)
            \o (IF EndsWith(base_no_plus, " implement")
                THEN [i \in 1..Len(IMPLEMENT_TYPES) |-> impl_prefix \o " " \o IMPLEMENT_TYPES[i]]
                ELSE <<>>)
    IN  IF s = "" THEN <<>> ELSE AddAll(s, candidates)

\* ------------------------------------------------------------------------
\* The canonical store (4e_compendium.db) as the resolver reads it.
\* db.tables[t] is table t in rowid (scan) order, each row [id, name];
\* db.name_index is the name_index table in rowid order.
\* ------------------------------------------------------------------------

\* The elements of seq that satisfy P, in their order in seq
SeqFilter(seq, P(_)) == Select(seq, { i \in 1..Len(seq) : P(seq[i]) })

Range(seq) == { seq[i] : i \in 1..Len(seq) }

\* Tables whose ids the resolver loads: those of TYPE_MAP plus the
\* item-like tables.
RESOLVER_TABLES ==
    { TYPE_MAP[t][1] : t \in { u \in DOMAIN TYPE_MAP : TYPE_MAP[u][1] # None } }
        \cup {"implements", "armor", "weapons", "poisons"}

\* get_valid_ids: a missing table gives the empty set
get_valid_ids(db, table) ==
    IF table \in DOMAIN db.tables THEN { r.id : r \in Range(db.tables[table]) } ELSE {}

valid_ids(db) == [t \in RESOLVER_TABLES |-> get_valid_ids(db, t)]

all_valid_ids(db) == UNION { valid_ids(db)[t] : t \in RESOLVER_TABLES }

\* name_to_ids.get(key, []): entry ids of the rows named key, in row order
name_to_ids(db, key) ==
    LET rows == SeqFilter(db.name_index, LAMBDA r : r.name_lower = key)
    IN  [i \in 1..Len(rows) |-> rows[i].entry_id]

AnyPrefix(eid, prefixes) == \E i \in 1..Len(prefixes) : StartsWith(eid, prefixes[i])

\* Tables to query by name when name_index misses full/compound names
PREFIX_TO_TABLE ==
    << <<"weapon", "weapons">>, <<"item", "items">>, <<"armor", "armor">>,
       <<"implement", "implements">>, <<"poison", "poisons">>,
       <<"power", "powers">>, <<"feat", "feats">> >>

\* Ids of one table accepted by the direct table search, in row order
TableHits(db, table, name_key, acceptable_prefixes) ==
    IF table \notin DOMAIN db.tables THEN <<>>
    ELSE LET rows == SeqFilter(db.tables[table],
                        LAMBDA r : /\ lower(r.name) = name_key
                                   /\ r.id \in all_valid_ids(db)
                                   /\ AnyPrefix(r.id, acceptable_prefixes))
         IN  [i \in 1..Len(rows) |-> rows[i].id]

RECURSIVE FirstTableHit(_, _, _, _)
FirstTableHit(db, i, name_key, acceptable_prefixes) ==
    IF i > Len(PREFIX_TO_TABLE) THEN None
    ELSE LET prefix == PREFIX_TO_TABLE[i][1]
             table  == PREFIX_TO_TABLE[i][2]
             hits   == TableHits(db, table, name_key, acceptable_prefixes)
         IN  IF /\ (InSeq(prefix, acceptable_prefixes) \/ InSeq(prefix \o "s", acceptable_prefixes))
                /\ table \in RESOLVER_TABLES
                /\ Len(hits) > 0
             THEN hits[1]
             ELSE FirstTableHit(db, i + 1, name_key, acceptable_prefixes)

\* Direct table search when name_index misses full/compound names.
search_tables_by_name(db, name_key, acceptable_prefixes) ==
    IF Len(acceptable_prefixes) = 0 \/ name_key = "" THEN None
    ELSE FirstTableHit(db, 1, name_key, acceptable_prefixes)

\* Acceptable id prefixes for a type hint
AcceptablePrefixes(type_hint) ==
    IF ~Truthy(type_hint) THEN <<>>
    ELSE IF type_hint \in DOMAIN TYPE_GROUP_PREFIXES THEN TYPE_GROUP_PREFIXES[type_hint]
    ELSE IF type_hint \in DOMAIN TYPE_MAP /\ Truthy(TYPE_MAP[type_hint][2])
         THEN << TYPE_MAP[type_hint][2] >>
         ELSE <<>>

\* TryVariant taking the first stored candidate whatever its category
TryVariant_FirstValid(db, key, acceptable_prefixes) ==
    LET candidates == name_to_ids(db, key)
        valid == SeqFilter(candidates, LAMBDA eid : eid \in all_valid_ids(db))
    IN  IF Len(valid) > 0 THEN valid[1]
        ELSE IF Len(acceptable_prefixes) > 0
        THEN search_tables_by_name(db, key, acceptable_prefixes)
        ELSE None

\* The outcome of one variant: an id, or None to go on to the next variant
TryVariant(db, key, acceptable_prefixes) ==
    LET candidates == name_to_ids(db, key)
        valid == SeqFilter(candidates, LAMBDA eid : eid \in all_valid_ids(db))
        type_matches == SeqFilter(valid, LAMBDA eid : AnyPrefix(eid, acceptable_prefixes))
    IN  IF Len(valid) > 0 /\ Len(acceptable_prefixes) > 0 /\ Len(type_matches) > 0
        THEN type_matches[1]
        ELSE IF Len(valid) > 0 /\ Len(acceptable_prefixes) = 0
        THEN valid[1]
        ELSE IF Len(acceptable_prefixes) > 0
        THEN search_tables_by_name(db, key, acceptable_prefixes)
        ELSE None

\* FirstVariantHit walking the variants from the last to the first
RECURSIVE FirstVariantHit_LastFirst(_, _, _)
FirstVariantHit_LastFirst(db, keys, acceptable_prefixes) ==
    IF Len(keys) = 0 THEN None
    ELSE LET hit == TryVariant(db, keys[Len(keys)], acceptable_prefixes)
         IN  IF Truthy(hit) THEN hit
             ELSE FirstVariantHit_LastFirst(db, SubSeq(keys, 1, Len(keys) - 1),
                                            acceptable_prefixes)

RECURSIVE FirstVariantHit(_, _, _)
FirstVariantHit(db, keys, acceptable_prefixes) ==
    IF Len(keys) = 0 THEN None
    ELSE LET hit == TryVariant(db, Head(keys), acceptable_prefixes)
         IN  IF Truthy(hit) THEN hit
             ELSE FirstVariantHit(db, Tail(keys), acceptable_prefixes)

\* search_by_name without the category constraint of the type hint
search_by_name_AnyCategory(db, name, type_hint) ==
    IF ~Truthy(name) \/ strip(name) = "" THEN None
    ELSE FirstVariantHit(db, name_search_variants(name), <<>>)

\* Search compendium by name. Tries exact match, then normalized variants.
search_by_name(db, name, type_hint) ==
    IF ~Truthy(name) \/ strip(name) = "" THEN None
    ELSE FirstVariantHit(db, name_search_variants(name), AcceptablePrefixes(type_hint))

\* ------------------------------------------------------------------------
\* extract_grants.py: the rule-graph extractor
\* An XML RulesElement is [internal_id, type, name, has_rules, rules]; a
\* directive (child of <rules>) is a record of its tag and attributes,
\* an absent attribute being None.
\* ------------------------------------------------------------------------

\* Return value for SQL; None stays None.
safe_str(val) ==
    IF val = None THEN None
    ELSE IF strip(val) # "" THEN strip(val) ELSE None

\* dict built by successive assignments <<key, value>>: the last one wins
DictGet(assignments, key) ==
    LET K == { i \in 1..Len(assignments) : assignments[i][1] = key }
    IN  IF K = {} THEN None ELSE assignments[CHOOSE m \in K : \A n \in K : n <= m][2]

\* xml_id -> name map for granted_name lookups (extract_grants.main)
id_to_name(xml) ==
    LET named == SeqFilter(xml, LAMBDA e : Truthy(e.internal_id) /\ Truthy(e.name))
    IN  [i \in 1..Len(named) |-> << named[i].internal_id, strip(named[i].name) >>]

GrantRow(elem, child, names, ordinal) ==
    [ kind |-> "grant",
      granter_xml_id |-> safe_str(elem.internal_id),
      granter_compendium_id |-> None,
      granter_type |-> safe_str(elem.type),
      granter_name |-> safe_str(elem.name),
      granted_xml_id |-> safe_str(child.name),
      granted_compendium_id |-> None,
      granted_type |-> safe_str(child.type),
      granted_name |-> DictGet(names, safe_str(child.name)),
      requires |-> safe_str(child.requires),
      level |-> safe_str(child.Level),
      ordinal |-> ordinal ]

\* StatAddRow writing ordinal 0 instead of the running ordinal of the owner
StatAddRow_ZeroOrdinal(elem, child, ordinal) ==
    [ kind |-> "statadd",
      granter_xml_id |-> safe_str(elem.internal_id),
      granter_compendium_id |-> None,
      granter_type |-> safe_str(elem.type),
      granter_name |-> safe_str(elem.name),
      stat_name |-> safe_str(child.name),
      value |-> safe_str(child.value),
      bonus_type |-> safe_str(child.type),
      requires |-> safe_str(child.requires),
      ordinal |-> 0 ]

StatAddRow(elem, child, ordinal) ==
    [ kind |-> "statadd",
      granter_xml_id |-> safe_str(elem.internal_id),
      granter_compendium_id |-> None,
      granter_type |-> safe_str(elem.type),
      granter_name |-> safe_str(elem.name),
      stat_name |-> safe_str(child.name),
      value |-> safe_str(child.value),
      bonus_type |-> safe_str(child.type),
      requires |-> safe_str(child.requires),
      ordinal |-> ordinal ]

\* child.get("Field") or child.get("field")
FieldAttr(child) == IF Truthy(child.Field) THEN child.Field ELSE child.field

ModifyRow(elem, child, ordinal) ==
    [ kind |-> "modify",
      granter_xml_id |-> safe_str(elem.internal_id),
      granter_compendium_id |-> None,
      granter_type |-> safe_str(elem.type),
      granter_name |-> safe_str(elem.name),
      target_name |-> safe_str(child.name),
      target_type |-> safe_str(child.type),
      field |-> safe_str(FieldAttr(child)),
      value |-> safe_str(child.value),
      list_addition |-> safe_str(child.list_addition),
      requires |-> safe_str(child.requires),
      ordinal |-> ordinal ]

\* Does the directive emit an edge?
Emits(child) ==
    LET tag == lower(child.tag)
    IN  \/ tag = "grant" /\ Truthy(safe_str(child.name)) /\ Truthy(safe_str(child.type))
        \/ tag = "statadd" /\ safe_str(child.name) # None /\ safe_str(child.value) # None
        \/ tag = "modify" /\ safe_str(child.name) # None /\ safe_str(FieldAttr(child)) # None

\* The edges of one RulesElement, in directive order, the ordinal counting
\* the edges emitted so far.
RECURSIVE RulesEdges(_, _, _, _)
RulesEdges(elem, children, names, ordinal) ==
    IF Len(children) = 0 THEN <<>>
    ELSE LET child == Head(children)
             tag == lower(child.tag)
         IN  IF ~Emits(child) THEN RulesEdges(elem, Tail(children), names, ordinal)
             ELSE << IF tag = "grant" THEN GrantRow(elem, child, names, ordinal)
                     ELSE IF tag = "statadd" THEN StatAddRow(elem, child, ordinal)
                     ELSE ModifyRow(elem, child, ordinal) >>
                  \o RulesEdges(elem, Tail(children), names, ordinal + 1)

\* Process a single RulesElement, extract grants/statadds/modifies.
process_rules_element(elem, names) ==
    IF ~Truthy(safe_str(elem.internal_id)) \/ ~Truthy(safe_str(elem.type)) THEN <<>>
    ELSE IF ~elem.has_rules THEN <<>>
    ELSE RulesEdges(elem, elem.rules, names, 0)

RECURSIVE AllEdges(_, _)
AllEdges(elems, names) ==
    IF Len(elems) = 0 THEN <<>>
    ELSE process_rules_element(Head(elems), names) \o AllEdges(Tail(elems), names)

OfKind(edges, k) == SeqFilter(edges, LAMBDA e : e.kind = k)

\* 4e_grants.db; each edge table is in rowid order (row i has id i)
NoGrantsDb ==
    [ exists |-> FALSE, extracted_at |-> 0, grants |-> <<>>, stat_additions |-> <<>>,
      modifies |-> <<>>, has_log |-> FALSE, log |-> <<>> ]

\* extract_grants.main on an existing XML file: the database is removed
\* and written afresh
ExtractedDb(xml, now) ==
    LET edges == AllEdges(xml, id_to_name(xml))
    IN  [ exists |-> TRUE, extracted_at |-> now,
          grants |-> OfKind(edges, "grant"),
          stat_additions |-> OfKind(edges, "statadd"),
          modifies |-> OfKind(edges, "modify"),
          has_log |-> FALSE, log |-> <<>> ]

\* What main reports at its end: the RulesElements processed, the rows
\* written per table, and the elements whose processing raised an exception
\* as <<xml id, message>>.  process_rules_element raises on no element, so
\* the list stays empty; a directive that is skipped leaves no entry.
NoReport ==
    [ processed |-> 0, grants |-> 0, stat_additions |-> 0, modifies |-> 0, errors |-> <<>> ]

ExtractReport(xml, db) ==
    [ processed |-> Len(xml), grants |-> Len(db.grants),
      stat_additions |-> Len(db.stat_additions), modifies |-> Len(db.modifies),
      errors |-> <<>> ]

\* ------------------------------------------------------------------------
\* resolve_compendium_ids.py: main
\* ------------------------------------------------------------------------

\* manual_id_mappings.csv: [exists, lines].  The accepted entries as
\* successive dict assignments <<xml_id, comp_id>>.
ManualEntry(line) ==
    LET l == strip(line)
        c == Find(l, ",")
    IN  << strip(Prefix(l, c - 1)), strip(Suffix(l, c + 1)) >>

\* manual_mappings without the check of the target against the store
manual_mappings_Unchecked(csv, db) ==
    IF ~csv.exists THEN <<>>
    ELSE SeqFilter([i \in 1..Len(csv.lines) |->
                        LET l == strip(csv.lines[i])
                        IN  IF l = "" \/ StartsWith(l, "xml_id") \/ ~Contains(l, ",")
                            THEN << "", "" >> ELSE ManualEntry(l)],
                   LAMBDA e : e[1] # "" /\ e[2] # "")

manual_mappings(csv, db) ==
    IF ~csv.exists THEN <<>>
    ELSE SeqFilter([i \in 1..Len(csv.lines) |->
                        LET l == strip(csv.lines[i])
                        IN  IF l = "" \/ StartsWith(l, "xml_id") \/ ~Contains(l, ",")
                            THEN << "", "" >> ELSE ManualEntry(l)],
                   LAMBDA e : e[1] # "" /\ e[2] # "" /\ e[2] \in all_valid_ids(db))

\* xml_id -> name from the grants DB, as successive dict assignments
GrantNames(g) ==
    (IF Truthy(g.granter_xml_id) /\ Truthy(g.granter_name)
     THEN << <<g.granter_xml_id, g.granter_name>> >> ELSE <<>>)
    \o (IF Truthy(g.granted_xml_id) /\ Truthy(g.granted_name)
        THEN << <<g.granted_xml_id, g.granted_name>> >> ELSE <<>>)

GranterNames(rows) ==
    LET named == SeqFilter(rows, LAMBDA r : Truthy(r.granter_xml_id) /\ Truthy(r.granter_name))
    IN  [i \in 1..Len(named) |-> << named[i].granter_xml_id, named[i].granter_name >>]

xml_id_to_name(gdb) ==
    Flatten([i \in 1..Len(gdb.grants) |-> GrantNames(gdb.grants[i])])
        \o GranterNames(gdb.stat_additions) \o GranterNames(gdb.modifies)

\* The xml ids in the order in which id_info first sees them
GrantIds(g) ==
    (IF Truthy(g.granter_xml_id) THEN << g.granter_xml_id >> ELSE <<>>)
    \o (IF Truthy(g.granted_xml_id) THEN << g.granted_xml_id >> ELSE <<>>)

GranterIds(rows) ==
    LET used == SeqFilter(rows, LAMBDA r : Truthy(r.granter_xml_id))
    IN  [i \in 1..Len(used) |-> used[i].granter_xml_id]

Occurrences(gdb) ==
    Flatten([i \in 1..Len(gdb.grants) |-> GrantIds(gdb.grants[i])])
        \o GranterIds(gdb.stat_additions) \o GranterIds(gdb.modifies)

FirstOccurrences(seq) ==
    Select(seq, { i \in 1..Len(seq) : \A j \in 1..(i - 1) : seq[j] # seq[i] })

CountRows(rows, P(_)) == Cardinality({ i \in 1..Len(rows) : P(rows[i]) })

\* GrantCounts counting a row whose granter is x as granter only
RECURSIVE GrantCounts_OncePerEdge(_, _, _)
GrantCounts_OncePerEdge(rows, x, acc) ==
    IF Len(rows) = 0 THEN acc
    ELSE LET row == Head(rows)
             g == IF Truthy(row.granter_xml_id) /\ row.granter_xml_id = x THEN 1 ELSE 0
             a == IF g = 0 /\ Truthy(row.granted_xml_id) /\ row.granted_xml_id = x THEN 1 ELSE 0
         IN  GrantCounts_OncePerEdge(Tail(rows), x, [acc EXCEPT ![1] = @ + g, ![2] = @ + a])

\* The counts of x after the rows of grants: a row adds one to the granter
\* count when its granter is x, then one to the granted count when its
\* granted target is x
RECURSIVE GrantCounts(_, _, _)
GrantCounts(rows, x, acc) ==
    IF Len(rows) = 0 THEN acc
    ELSE LET row == Head(rows)
             g == IF Truthy(row.granter_xml_id) /\ row.granter_xml_id = x THEN 1 ELSE 0
             a == IF Truthy(row.granted_xml_id) /\ row.granted_xml_id = x THEN 1 ELSE 0
         IN  GrantCounts(Tail(rows), x, [acc EXCEPT ![1] = @ + g, ![2] = @ + a])

\* The counts of x after the rows of stat_additions (k = 3) or modifies (k = 4)
RECURSIVE GranterCounts(_, _, _, _)
GranterCounts(rows, x, k, acc) ==
    IF Len(rows) = 0 THEN acc
    ELSE LET row == Head(rows)
             n == IF Truthy(row.granter_xml_id) /\ row.granter_xml_id = x THEN 1 ELSE 0
         IN  GranterCounts(Tail(rows), x, k, [acc EXCEPT ![k] = @ + n])

\* id_info[xml_id] = (granter_in_grants, granted_in_grants, granter_in_statadd, granter_in_modify)
id_info(gdb, x) ==
    GranterCounts(gdb.modifies, x, 4,
        GranterCounts(gdb.stat_additions, x, 3,
            GrantCounts(gdb.grants, x, << 0, 0, 0, 0 >>)))

\* LogRow recording the method "id" when none is given
LogRow_DefaultMethod(x, attempted, resolved, table, status, method, reason, info) ==
    [ xml_id |-> x, attempted_compendium_id |-> attempted,
      resolved_compendium_id |-> resolved, compendium_table |-> table,
      status |-> status, resolution_method |-> IF method = None THEN "id" ELSE method,
      unmappable_reason |-> reason,
      occurrence_count |-> info[1] + info[2] + info[3] + info[4],
      as_granter_in_grants |-> info[1], as_granted_in_grants |-> info[2],
      in_statadd_count |-> info[3], in_modify_count |-> info[4] ]

\* LogRow without the attempted id
LogRow_NoAttempted(x, attempted, resolved, table, status, method, reason, info) ==
    [ xml_id |-> x, attempted_compendium_id |-> None,
      resolved_compendium_id |-> resolved, compendium_table |-> table,
      status |-> status, resolution_method |-> method, unmappable_reason |-> reason,
      occurrence_count |-> info[1] + info[2] + info[3] + info[4],
      as_granter_in_grants |-> info[1], as_granted_in_grants |-> info[2],
      in_statadd_count |-> info[3], in_modify_count |-> info[4] ]

LogRow(x, attempted, resolved, table, status, method, reason, info) ==
    [ xml_id |-> x, attempted_compendium_id |-> attempted,
      resolved_compendium_id |-> resolved, compendium_table |-> table,
      status |-> status, resolution_method |-> method, unmappable_reason |-> reason,
      occurrence_count |-> info[1] + info[2] + info[3] + info[4],
      as_granter_in_grants |-> info[1], as_granted_in_grants |-> info[2],
      in_statadd_count |-> info[3], in_modify_count |-> info[4] ]

\* type_hint of the name-search branch
TypeHint(xml_id, comp_id) ==
    LET rest == RemoveFirst(xml_id, FMP)
        cut == RFind(rest, "_")
    IN  IF Truthy(comp_id) /\ Contains(xml_id, FMP) /\ cut # 0 THEN Prefix(rest, cut - 1)
        ELSE None

\* ResolveOne letting an unmappable reference fall through to the manual
\* override and the name search
ResolveOne_UnmappableFallsThrough(x, gdb, db, manual) ==
    LET Record(d, info, manual_id, name) ==
            IF Truthy(d.comp_id) /\ Truthy(d.table) /\ d.comp_id \in get_valid_ids(db, d.table)
            THEN LogRow(x, d.comp_id, d.comp_id, d.table, "matched", "id", None, info)
            ELSE IF Truthy(manual_id)
            THEN LogRow(x, d.comp_id, manual_id, None, "matched_manual", "manual", None, info)
            ELSE LET Searched(found_by_name) ==
                         IF Truthy(found_by_name)
                         THEN LogRow(x, d.comp_id, found_by_name, None, "matched_name_search", "name_search", None, info)
                         ELSE IF Truthy(d.unmappable)
                         THEN LogRow(x, None, None, None, "unmappable", None, d.unmappable, info)
                         ELSE LogRow(x, d.comp_id, None, d.table, "not_found", None, None, info)
                 IN  Searched(IF Truthy(name) THEN search_by_name(db, name, None) ELSE None)
    IN  Record(xml_to_compendium_id(x), id_info(gdb, x), DictGet(manual, x),
               DictGet(xml_id_to_name(gdb), x))

\* ResolveOne with the manual override consulted before the direct candidate
ResolveOne_ManualFirst(x, gdb, db, manual) ==
    LET Record(d, info, manual_id, name) ==
            IF Truthy(d.unmappable)
            THEN LogRow(x, None, None, None, "unmappable", None, d.unmappable, info)
            ELSE IF Truthy(manual_id)
            THEN LogRow(x, d.comp_id, manual_id, None, "matched_manual", "manual", None, info)
            ELSE IF Truthy(d.comp_id) /\ Truthy(d.table) /\ d.comp_id \in get_valid_ids(db, d.table)
            THEN LogRow(x, d.comp_id, d.comp_id, d.table, "matched", "id", None, info)
            ELSE LET Searched(found_by_name) ==
                         IF Truthy(found_by_name)
                         THEN LogRow(x, d.comp_id, found_by_name, None, "matched_name_search", "name_search", None, info)
                         ELSE LogRow(x, d.comp_id, None, d.table, "not_found", None, None, info)
                 IN  Searched(IF Truthy(name) THEN search_by_name(db, name, TypeHint(x, d.comp_id))
                              ELSE None)
    IN  Record(xml_to_compendium_id(x), id_info(gdb, x), DictGet(manual, x),
               DictGet(xml_id_to_name(gdb), x))

\* One iteration of the resolution loop: the log row of xml_id.  Record
\* takes the locals of the iteration (comp_id/table/unmappable, the counts,
\* the manual entry, the display name); Searched the result of the name search.
ResolveOne(x, gdb, db, manual) ==
    LET Record(d, info, manual_id, name) ==
            IF Truthy(d.unmappable)
            THEN LogRow(x, None, None, None, "unmappable", None, d.unmappable, info)
            ELSE IF Truthy(d.comp_id) /\ Truthy(d.table) /\ d.comp_id \in get_valid_ids(db, d.table)
            THEN LogRow(x, d.comp_id, d.comp_id, d.table, "matched", "id", None, info)
            ELSE IF Truthy(manual_id)
            THEN LogRow(x, d.comp_id, manual_id, None, "matched_manual", "manual", None, info)
            ELSE LET Searched(found_by_name) ==
                         IF Truthy(found_by_name)
                         THEN LogRow(x, d.comp_id, found_by_name, None, "matched_name_search", "name_search", None, info)
                         ELSE LogRow(x, d.comp_id, None, d.table, "not_found", None, None, info)
                 IN  Searched(IF Truthy(name) THEN search_by_name(db, name, TypeHint(x, d.comp_id))
                              ELSE None)
    IN  Record(xml_to_compendium_id(x), id_info(gdb, x), DictGet(manual, x),
               DictGet(xml_id_to_name(gdb), x))

\* The rows written to _id_resolution_log, one per key of id_info
log_rows(gdb, db, manual) ==
    LET ids == FirstOccurrences(Occurrences(gdb))
    IN  [i \in 1..Len(ids) |-> ResolveOne(ids[i], gdb, db, manual)] \o <<>>

\* resolve(xml_id) after the loop has filled resolution_cache
resolve(xml_id, rows, db) ==
    LET Cached(hit) == rows[CHOOSE i \in hit : TRUE].resolved_compendium_id
        Direct(d) ==
            IF Truthy(d.unmappable) THEN None
            ELSE IF Truthy(d.comp_id) /\ Truthy(d.table) /\ d.comp_id \in get_valid_ids(db, d.table)
            THEN d.comp_id
            ELSE None
    IN  IF xml_id = None THEN None
        ELSE IF \E i \in 1..Len(rows) : rows[i].xml_id = xml_id
        THEN Cached({ i \in 1..Len(rows) : rows[i].xml_id = xml_id })
        ELSE Direct(xml_to_compendium_id(xml_id))

\* UpdateGrant writing the granter side only
UpdateGrant_GranterOnly(g, rows, db) ==
    LET Write(granter_comp) ==
            IF granter_comp # None THEN [g EXCEPT !.granter_compendium_id = granter_comp] ELSE g
    IN  Write(resolve(g.granter_xml_id, rows, db))

\* Update grants: both fields are written when either id resolved
UpdateGrant(g, rows, db) ==
    LET Write(granter_comp, granted_comp) ==
            IF granter_comp # None \/ granted_comp # None
            THEN [g EXCEPT !.granter_compendium_id = granter_comp,
                           !.granted_compendium_id = granted_comp]
            ELSE g
    IN  Write(resolve(g.granter_xml_id, rows, db), resolve(g.granted_xml_id, rows, db))

\* UpdateGranter overwriting the external reference with the resolved id
UpdateGranter_ReplaceRef(r, rows, db) ==
    LET Write(granter_comp) ==
            IF granter_comp # None
            THEN [r EXCEPT !.granter_compendium_id = granter_comp, !.granter_xml_id = granter_comp]
            ELSE r
    IN  Write(resolve(r.granter_xml_id, rows, db))

\* Update stat_additions / modifies (granter only)
UpdateGranter(r, rows, db) ==
    LET Write(granter_comp) ==
            IF granter_comp # None THEN [r EXCEPT !.granter_compendium_id = granter_comp] ELSE r
    IN  Write(resolve(r.granter_xml_id, rows, db))

\* ResolvedDb clearing only the not_found rows instead of dropping the
\* table: the other rows of earlier runs stay
ResolvedDb_AppendLog(gdb, db, csv) ==
    LET Written(rows) ==
            [ gdb EXCEPT
                !.has_log = TRUE,
                !.log = SeqFilter(@, LAMBDA r : r.status # "not_found") \o rows,
                !.grants = [i \in 1..Len(gdb.grants) |-> UpdateGrant(gdb.grants[i], rows, db)],
                !.stat_additions = [i \in 1..Len(gdb.stat_additions) |->
                                        UpdateGranter(gdb.stat_additions[i], rows, db)],
                !.modifies = [i \in 1..Len(gdb.modifies) |->
                                  UpdateGranter(gdb.modifies[i], rows, db)] ]
    IN  Written(log_rows(gdb, db, manual_mappings(csv, db)))

\* The grants DB after a run of the resolver against store db
ResolvedDb(gdb, db, csv) ==
    LET Written(rows) ==
            [ gdb EXCEPT
                !.has_log = TRUE,
                !.log = rows,
                !.grants = [i \in 1..Len(gdb.grants) |-> UpdateGrant(gdb.grants[i], rows, db)],
                !.stat_additions = [i \in 1..Len(gdb.stat_additions) |->
                                        UpdateGranter(gdb.stat_additions[i], rows, db)],
                !.modifies = [i \in 1..Len(gdb.modifies) |->
                                  UpdateGranter(gdb.modifies[i], rows, db)] ]
    IN  Written(log_rows(gdb, db, manual_mappings(csv, db)))

\* The counts of the summary that main prints
StatusCount(gdb, status) == CountRows(gdb.log, LAMBDA r : r.status = status)

Summary(gdb) ==
    [ matched |-> StatusCount(gdb, "matched"),
      matched_name_search |-> StatusCount(gdb, "matched_name_search"),
      matched_manual |-> StatusCount(gdb, "matched_manual"),
      not_found |-> StatusCount(gdb, "not_found"),
      unmappable |-> StatusCount(gdb, "unmappable") ]

\* --- export of the not_found rows (not_found_manual_review.csv) ---

\* The printable ASCII characters of ids and names, in code order (binary
\* collation)
AsciiChars ==
    " !\"#$%&'()*+,-./0123456789:;<=>?@ABCDEFGHIJKLMNOPQRSTUVWXYZ[\\]^_abcdefghijklmnopqrstuvwxyz{|}~"

Code(c) == Find(AsciiChars, c)

\* a < b in binary collation
StrLess(a, b) ==
    \E i \in 1..(Len(b)) :
        /\ Prefix(a, i - 1) = Prefix(b, i - 1)
        /\ (i > Len(a) \/ Code(CharAt(a, i)) < Code(CharAt(b, i)))

\* seq sorted by the strict total order Before
SortBy(seq, Before(_, _)) ==
    LET rank(i) == Cardinality({ j \in 1..Len(seq) : Before(seq[j], seq[i]) })
    IN  [k \in 1..Len(seq) |-> seq[CHOOSE i \in 1..Len(seq) : rank(i) = k - 1]]

RECURSIVE IntToStr(_)
IntToStr(n) ==
    IF n < 10 THEN CharAt(DigitChars, n + 1)
    ELSE IntToStr(n \div 10) \o CharAt(DigitChars, (n % 10) + 1)

\* str(x) of an optional text
PyStr(x) == IF x = None THEN "None" ELSE x

RECURSIVE DoubleQuotes(_)
DoubleQuotes(s) ==
    IF Len(s) = 0 THEN ""
    ELSE (IF CharAt(s, 1) = "\"" THEN "\"\"" ELSE CharAt(s, 1)) \o DoubleQuotes(Tail(s))

\* SELECT name_col FROM table WHERE id_col = ? LIMIT 1, for the four
\* (table, id column) pairs in turn; the first non-empty name wins
FirstName(rows, Id(_), Name(_), x, otherwise) ==
    LET hit == SeqFilter(rows, LAMBDA r : Id(r) = x)
    IN  IF Len(hit) > 0 /\ Truthy(Name(hit[1])) THEN Name(hit[1]) ELSE otherwise

ReviewName(gdb, x) ==
    FirstName(gdb.grants, LAMBDA r : r.granted_xml_id, LAMBDA r : r.granted_name, x,
      FirstName(gdb.grants, LAMBDA r : r.granter_xml_id, LAMBDA r : r.granter_name, x,
        FirstName(gdb.stat_additions, LAMBDA r : r.granter_xml_id, LAMBDA r : r.granter_name, x,
          FirstName(gdb.modifies, LAMBDA r : r.granter_xml_id, LAMBDA r : r.granter_name, x,
            None))))

ReviewLine(gdb, row) ==
    LET name == ReviewName(gdb, row.xml_id)
    IN  row.xml_id \o "," \o PyStr(row.attempted_compendium_id) \o ","
          \o PyStr(row.compendium_table) \o "," \o IntToStr(row.occurrence_count) \o ","
          \o (IF Truthy(name) THEN "\"" \o DoubleQuotes(name) \o "\"" ELSE "")

\* The lines after the header, ORDER BY occurrence_count DESC, xml_id
ReviewCsv(gdb) ==
    LET nf == SeqFilter(gdb.log, LAMBDA r : r.status = "not_found")
        sorted == SortBy(nf, LAMBDA a, b :
                      \/ a.occurrence_count > b.occurrence_count
                      \/ /\ a.occurrence_count = b.occurrence_count
                         /\ StrLess(a.xml_id, b.xml_id))
    IN  [i \in 1..Len(sorted) |-> ReviewLine(gdb, sorted[i])]

\* ------------------------------------------------------------------------
\* build_compendium_db.py: the store writer
\* The source of a category is [exists, rows], rows being the decoded
\* listing rows [id, name, keywords] (columns ID, Name, Keywords); the
\* modelled sources have no dataN.js and no _index.js units, so html_body
\* and search_text are empty for every row.
\* ------------------------------------------------------------------------

\* category -> table, in the order in which build_database walks them
category_table_map ==
    << <<"power", "powers">>, <<"feat", "feats">>, <<"monster", "monsters">>,
       <<"item", "items">>, <<"class", "classes">>, <<"race", "races">>,
       <<"paragonpath", "paragon_paths">>, <<"epicdestiny", "epic_destinies">>,
       <<"theme", "themes">>, <<"ritual", "rituals">>, <<"background", "backgrounds">>,
       <<"trap", "traps">>, <<"disease", "diseases">>, <<"poison", "poisons">>,
       <<"deity", "deities">>, <<"companion", "companions">>, <<"glossary", "glossary">>,
       <<"armor", "armor">>, <<"weapon", "weapons">>, <<"implement", "implements">> >>

CATEGORIES == { category_table_map[i][1] : i \in 1..Len(category_table_map) }

TABLES == { category_table_map[i][2] : i \in 1..Len(category_table_map) }

\* Known damage types in 4e, in one fixed listing order
DAMAGE_TYPES ==
    << "fire", "cold", "lightning", "thunder", "radiant", "necrotic",
       "psychic", "poison", "acid", "force" >>

Reverse(seq) == [i \in 1..Len(seq) |-> seq[Len(seq) + 1 - i]]

\* DAMAGE_TYPES is a Python set of strings: its iteration order is fixed
\* within one process and varies between processes with the hash seed.
\* Two of the possible orders are modelled.
HashOrders == { DAMAGE_TYPES, Reverse(DAMAGE_TYPES) }

\* create_schema on a fresh file
EmptyDb ==
    [ exists |-> TRUE,
      tables |-> [t \in TABLES |-> <<>>],
      power_keywords |-> {}, power_damage_types |-> {}, power_conditions |-> {},
      name_index |-> <<>>, parse_log |-> <<>>, categories |-> {},
      meta |-> [build_date |-> 0, total_entries |-> "", version |-> ""] ]

NoDb == [EmptyDb EXCEPT !.exists = FALSE]

\* INSERT OR REPLACE INTO table: a row with the same id is deleted and the
\* new row gets a fresh rowid, that is, goes last in scan order
InsertOrReplace(rows, row) ==
    SeqFilter(rows, LAMBDA r : r.id # row.id) \o << row >>

\* [k.strip() for k in keywords_raw.split(',') if k.strip()]
RECURSIVE SplitKeywords(_)
SplitKeywords(s) ==
    LET c == Find(s, ",")
        head == strip(IF c = 0 THEN s ELSE Prefix(s, c - 1))
        rest == IF c = 0 THEN <<>> ELSE SplitKeywords(Suffix(s, c + 1))
    IN  (IF head # "" THEN << head >> ELSE <<>>) \o rest

\* extract_damage_types: (found, sources), the sources in iteration order
extract_damage_types(keywords_raw, order) ==
    IF ~Truthy(keywords_raw) THEN <<>>
    ELSE SeqFilter(order, LAMBDA dt : Contains(lower(keywords_raw), dt))

\* The effect of one listing row of insert_powers
InsertPower(db, row, order, now) ==
    LET dts == extract_damage_types(row.keywords, order)
        kws == IF Truthy(row.keywords) THEN Range(SplitKeywords(row.keywords)) ELSE {}
    IN  [ db EXCEPT
            !.tables["powers"] = InsertOrReplace(@, [id |-> row.id, name |-> row.name]),
            !.power_keywords = @ \cup { << row.id, kw >> : kw \in kws },
            !.power_damage_types = @ \cup { << row.id, dt >> : dt \in Range(dts) },
            !.parse_log = @ \o [i \in 1..Len(dts) |->
                                 [ entry_id |-> row.id, field |-> "damage_type",
                                   value |-> dts[i], source |-> "keyword",
                                   confidence |-> "high", timestamp |-> now ]] ]

RECURSIVE insert_powers(_, _, _, _)
insert_powers(db, rows, order, now) ==
    IF Len(rows) = 0 THEN db
    ELSE insert_powers(InsertPower(db, Head(rows), order, now), Tail(rows), order, now)

RECURSIVE insert_generic(_, _, _)
insert_generic(db, table_name, rows) ==
    IF Len(rows) = 0 THEN db
    ELSE insert_generic(
           [db EXCEPT !.tables[table_name] =
                 InsertOrReplace(@, [id |-> Head(rows).id, name |-> Head(rows).name])],
           table_name, Tail(rows))

\* The per-category loop of build_database, from entry i on
RECURSIVE ProcessCategories(_, _, _, _, _)
ProcessCategories(db, listing, i, order, now) ==
    IF i > Len(category_table_map) THEN db
    ELSE LET category == category_table_map[i][1]
             table_name == category_table_map[i][2]
             rows == listing[category].rows
             filled == IF category = "power" THEN insert_powers(db, rows, order, now)
                       ELSE insert_generic(db, table_name, rows)
         IN  IF ~listing[category].exists \/ Len(rows) = 0
             THEN ProcessCategories(db, listing, i + 1, order, now)
             ELSE ProcessCategories(
                    [filled EXCEPT !.categories = @ \cup { << category, Len(rows), table_name >> }],
                    listing, i + 1, order, now)

\* Rows of index.js: [name, ids] with ids a list of entry ids (a scalar
\* value is a list of one); INSERT OR IGNORE keeps the first of equal pairs
RECURSIVE InsertNames(_, _)
InsertNames(index, pairs) ==
    IF Len(pairs) = 0 THEN index
    ELSE InsertNames(
           IF InSeq(Head(pairs), index) THEN index ELSE Append(index, Head(pairs)),
           Tail(pairs))

NamePairs(entries) ==
    Flatten([i \in 1..Len(entries) |->
               [j \in 1..Len(entries[i].ids) |->
                   [name_lower |-> entries[i].name, entry_id |-> entries[i].ids[j]]]])

TotalEntries(listing) ==
    LET counted == SeqFilter(category_table_map,
                             LAMBDA ct : listing[ct[1]].exists /\ Len(listing[ct[1]].rows) > 0)
        RECURSIVE Sum(_)
        Sum(k) == IF k = 0 THEN 0 ELSE Len(listing[counted[k][1]].rows) + Sum(k - 1)
    IN  Sum(Len(counted))

\* build_database starting from store `before` (the removed and re-created
\* file is EmptyDb)
BuildFrom(before, source, order, now) ==
    LET filled == ProcessCategories(before, source.listing, 1, order, now)
        indexed == IF source.name_index.exists
                   THEN [filled EXCEPT !.name_index =
                            InsertNames(@, NamePairs(source.name_index.entries))]
                   ELSE filled
    IN  [ indexed EXCEPT !.meta = [ build_date |-> now,
                                    total_entries |-> IntToStr(TotalEntries(source.listing)),
                                    version |-> "1.0" ] ]

\* os.remove(OUTPUT_DB) then a build into the fresh file
build_database(source, order, now) == BuildFrom(EmptyDb, source, order, now)

\* ------------------------------------------------------------------------
\* build_compendium_db.py: JSON cleaning utilities
\* json.loads is modelled on the JSON of the listing payloads: strings
\* with escapes, integers, true/false/null, arrays and objects.  A decoded
\* tree is written as a canonical text: a string as "s" followed by the
\* code of each character and a dot, an integer as "n" and its digits, each
\* closed by ";"; an array in brackets; an object in braces with its keys
\* in code order (dict equality ignores the order of insertion).
\* ------------------------------------------------------------------------

\* \s of the regular expressions
ReSpace(c) == c \in { " ", "\t", "\n", "\r", "\f" }

\* s = re.sub(r',(\s*[}\]])', r'\1', s)
RECURSIVE StripTrailingCommas(_)
StripTrailingCommas(s) ==
    IF s = "" THEN ""
    ELSE LET stop == { j \in 2..(Len(s) + 1) : ~ReSpace(CharAt(s, j)) }
             close == SetMin(stop)
         IN  IF CharAt(s, 1) = "," /\ CharAt(s, close) \in { "}", "]" }
             THEN Slice(s, 2, close) \o StripTrailingCommas(Suffix(s, close + 1))
             ELSE CharAt(s, 1) \o StripTrailingCommas(Suffix(s, 2))

\* The characters that the pattern of fix_escapes excludes after a backslash
EscapeLetters == { "b", "f", "n", "r", "t", "u", "\"", "\\", "/" }

\* s = re.sub(r'\\([^bfnrtu"\\/])', fix_escapes, s): the matches are found
\* from left to right and do not overlap; fix_escapes doubles the backslash
\* of every match (its own test of the character never succeeds)
RECURSIVE FixEscapes(_)
FixEscapes(s) ==
    IF s = "" THEN ""
    ELSE IF CharAt(s, 1) = "\\" /\ Len(s) >= 2 /\ CharAt(s, 2) \notin EscapeLetters
    THEN "\\\\" \o CharAt(s, 2) \o FixEscapes(Suffix(s, 3))
    ELSE CharAt(s, 1) \o FixEscapes(Suffix(s, 2))

\* Clean a JSON-like string to make it valid JSON.
clean_json_string(s) == FixEscapes(StripTrailingCommas(s))

\* --- json.loads ---

Fail == [ ok |-> FALSE, val |-> None, next |-> 0 ]

Ok(v, n) == [ ok |-> TRUE, val |-> v, next |-> n ]

JsonSpace(c) == c \in { " ", "\t", "\n", "\r" }

\* The first position from i on that holds no whitespace
SkipWs(s, i) == SetMin({ j \in i..(Len(s) + 1) : ~JsonSpace(CharAt(s, j)) })

\* ord(c) of a printable ASCII character; AsciiChars goes from the space
\* (32) to the tilde without the grave accent (96)
Ord(c) == IF Code(c) <= 64 THEN Code(c) + 31 ELSE Code(c) + 32

CodeText(n) == IntToStr(n) \o "."

\* The character that a one-letter escape stands for
EscapeCode(e) ==
    CASE e = "\"" -> 34 [] e = "\\" -> 92 [] e = "/" -> 47 [] e = "b" -> 8
      [] e = "f" -> 12 [] e = "n" -> 10 [] e = "r" -> 13 [] e = "t" -> 9

HexDigit(c) == Find("0123456789abcdef", lower(c)) - 1

IsHex(c) == Len(c) = 1 /\ HexDigit(c) >= 0

\* The string that opens before position j, decoded so far into acc
RECURSIVE ScanString(_, _, _)
ScanString(s, j, acc) ==
    LET c == CharAt(s, j)
        e == CharAt(s, j + 1)
        hex == [k \in 1..4 |-> CharAt(s, j + 1 + k)]
    IN  IF j > Len(s) THEN Fail
        ELSE IF c = "\"" THEN Ok("s" \o acc \o ";", j + 1)
        ELSE IF c = "\\"
        THEN IF e \in EscapeLetters \ { "u" }
             THEN ScanString(s, j + 2, acc \o CodeText(EscapeCode(e)))
             ELSE IF e = "u" /\ \A k \in 1..4 : IsHex(hex[k])
             THEN ScanString(s, j + 6,
                    acc \o CodeText(4096 * HexDigit(hex[1]) + 256 * HexDigit(hex[2])
                                      + 16 * HexDigit(hex[3]) + HexDigit(hex[4])))
             ELSE Fail
        ELSE IF c \in { "\t", "\n", "\r", "\f" } THEN Fail
        ELSE ScanString(s, j + 1, acc \o CodeText(Ord(c)))

\* -?(0|[1-9]\d*); the modelled payloads have no fraction and no exponent
ScanNumber(s, i) ==
    LET first == IF CharAt(s, i) = "-" THEN i + 1 ELSE i
        stop == SetMin({ j \in first..(Len(s) + 1) : ~IsDigit(CharAt(s, j)) })
        end == IF CharAt(s, first) = "0" THEN first + 1 ELSE stop
        digits == Slice(s, first, end - 1)
    IN  IF stop = first THEN Fail
        ELSE Ok("n" \o (IF first > i /\ digits # "0" THEN "-" ELSE "") \o digits \o ";", end)

RECURSIVE Concat(_)
Concat(ss) == IF Len(ss) = 0 THEN "" ELSE Head(ss) \o Concat(Tail(ss))

\* The dict of the members <<key, value>> in the order read: the last
\* value of a key stays
DictText(members) ==
    LET keys == { members[i][1] : i \in 1..Len(members) }
        last(k) == members[CHOOSE i \in 1..Len(members) :
                              /\ members[i][1] = k
                              /\ \A j \in (i + 1)..Len(members) : members[j][1] # k][2]
        first == Select(members, { i \in 1..Len(members) :
                                     \A j \in 1..(i - 1) : members[j][1] # members[i][1] })
        sorted == SortBy(first, LAMBDA a, b : StrLess(a[1], b[1]))
    IN  "{" \o Concat([i \in 1..Len(sorted) |-> sorted[i][1] \o "=" \o last(sorted[i][1])]) \o "}"

RECURSIVE ParseValue(_, _)
RECURSIVE ParseElems(_, _, _)
RECURSIVE ParseMembers(_, _, _)

\* The value that starts at position i
ParseValue(s, i) ==
    LET c == CharAt(s, i)
        j == SkipWs(s, i + 1)
    IN  IF c = "\"" THEN ScanString(s, i + 1, "")
        ELSE IF c = "[" THEN IF CharAt(s, j) = "]" THEN Ok("[]", j + 1)
                             ELSE ParseElems(s, j, "[")
        ELSE IF c = "{" THEN IF CharAt(s, j) = "}" THEN Ok("{}", j + 1)
                             ELSE ParseMembers(s, j, <<>>)
        ELSE IF c = "-" \/ IsDigit(c) THEN ScanNumber(s, i)
        ELSE IF Slice(s, i, i + 3) = "null" THEN Ok("null;", i + 4)
        ELSE IF Slice(s, i, i + 3) = "true" THEN Ok("true;", i + 4)
        ELSE IF Slice(s, i, i + 4) = "false" THEN Ok("false;", i + 5)
        ELSE Fail

\* The elements of an array from position i on, acc holding those read
ParseElems(s, i, acc) ==
    LET v == ParseValue(s, i)
        j == SkipWs(s, v.next)
    IN  IF ~v.ok THEN Fail
        ELSE IF CharAt(s, j) = "]" THEN Ok(acc \o v.val \o "]", j + 1)
        ELSE IF CharAt(s, j) = "," THEN ParseElems(s, SkipWs(s, j + 1), acc \o v.val)
        ELSE Fail

\* The members of an object from position i on
ParseMembers(s, i, acc) ==
    LET k == ScanString(s, i + 1, "")
        colon == SkipWs(s, k.next)
        v == ParseValue(s, SkipWs(s, colon + 1))
        j == SkipWs(s, v.next)
        members == Append(acc, << k.val, v.val >>)
    IN  IF CharAt(s, i) # "\"" THEN Fail
        ELSE IF ~k.ok \/ CharAt(s, colon) # ":" THEN Fail
        ELSE IF ~v.ok THEN Fail
        ELSE IF CharAt(s, j) = "}" THEN Ok(DictText(members), j + 1)
        ELSE IF CharAt(s, j) = "," THEN ParseMembers(s, SkipWs(s, j + 1), members)
        ELSE Fail

\* json.loads(s): one value with nothing but whitespace around it;
\* ok = FALSE stands for JSONDecodeError
json_loads(s) ==
    LET v == ParseValue(s, SkipWs(s, 1))
    IN  IF v.ok /\ SkipWs(s, v.next) = Len(s) + 1 THEN v ELSE Fail

\* The Python value of a parse: null is None
PyValue(v) == IF v.val = "null;" THEN None ELSE v.val

\* Attempt to parse JSON, cleaning it first if needed.
safe_json_loads(s) ==
    IF json_loads(s).ok THEN PyValue(json_loads(s))
    ELSE IF json_loads(clean_json_string(s)).ok THEN PyValue(json_loads(clean_json_string(s)))
    ELSE None

\* ------------------------------------------------------------------------
\* generate_character_sheet.py: the name lookup of report rendering
\* A result is <<table, id>> of the row found, or NotFound.
\* ------------------------------------------------------------------------

NotFound == << None, None >>

\* \([^)]*tier\): a parenthetical ending in "tier"
IsTierGroup(t) ==
    /\ Len(t) >= 6 /\ CharAt(t, 1) = "(" /\ Suffix(t, Len(t) - 4) = "tier)"
    /\ ~Contains(Slice(t, 2, Len(t) - 1), ")")

MatchTier(t) == Spaced(t, FALSE, IsTierGroup)

MatchTierIgnoreCase(t) == Spaced(lower(t), FALSE, IsTierGroup)

\* First row of a table, in scan order, that satisfies P; None when absent
FirstRowId(db, table, P(_)) ==
    LET hit == IF table \in DOMAIN db.tables THEN SeqFilter(db.tables[table], P) ELSE <<>>
    IN  IF Len(hit) > 0 THEN hit[1].id ELSE None

\* The three queries lookup_entry runs against one table
LookupInTable(db, table, search_name, clean_name) ==
    LET exact == FirstRowId(db, table, LAMBDA r : lower(r.name) = lower(clean_name))
        like == FirstRowId(db, table, LAMBDA r : StartsWith(lower(r.name), lower(clean_name)))
        orig == FirstRowId(db, table, LAMBDA r : StartsWith(lower(r.name), lower(search_name)))
    IN  IF exact # None THEN exact
        ELSE IF like # None THEN like
        ELSE IF clean_name # search_name THEN orig
        ELSE None

RECURSIVE LookupTables(_, _, _, _)
LookupTables(db, tables, search_name, clean_name) ==
    IF Len(tables) = 0 THEN NotFound
    ELSE LET id == LookupInTable(db, Head(tables), search_name, clean_name)
         IN  IF id # None THEN << Head(tables), id >>
             ELSE LookupTables(db, Tail(tables), search_name, clean_name)

\* Look up an entry by name across multiple tables.
lookup_entry(db, name, tables) ==
    LET search_name == strip(name)
        clean_name == strip(StripSuffix(StripPlusN(search_name), MatchTierIgnoreCase))
    IN  LookupTables(db, tables, search_name, clean_name)

SHEET_TABLE_MAP ==
    ("power" :> "powers") @@ ("feat" :> "feats") @@ ("item" :> "items") @@
    ("ritual" :> "rituals") @@ ("background" :> "backgrounds") @@
    ("class" :> "classes") @@ ("race" :> "races") @@
    ("paragonpath" :> "paragon_paths") @@ ("epicdestiny" :> "epic_destinies") @@
    ("theme" :> "themes") @@ ("armor" :> "armor") @@ ("weapon" :> "weapons") @@
    ("implement" :> "implements") @@ ("glossary" :> "glossary") @@
    ("monster" :> "monsters")

\* re.match(r'([a-z]+)', entry_id): the leading lowercase letters
LeadingLower(s) ==
    LET stop == { i \in 1..Len(s) : ~IsLower(CharAt(s, i)) }
    IN  IF stop = {} THEN s ELSE Prefix(s, SetMin(stop) - 1)

\* SELECT entry_id FROM name_index WHERE name_lower = ?  -- the rows come in
\* the order of the primary-key index (name_lower, entry_id); fetchone()
\* takes the first
FirstIndexed(db, clean_name) ==
    LET ids == { r.entry_id : r \in { q \in Range(db.name_index) : q.name_lower = clean_name } }
    IN  IF ids = {} THEN None
        ELSE CHOOSE m \in ids : \A n \in ids : m = n \/ StrLess(m, n)

\* Look up using the global name index.
lookup_by_name_index(db, name) ==
    LET clean_name == strip(StripSuffix(StripPlusN(strip(lower(name))), MatchTier))
        entry_id == FirstIndexed(db, clean_name)
        prefix == LeadingLower(entry_id)
        table == SHEET_TABLE_MAP[prefix]
    IN  IF entry_id = None \/ prefix = "" \/ prefix \notin DOMAIN SHEET_TABLE_MAP THEN NotFound
        ELSE IF FirstRowId(db, table, LAMBDA r : r.id = entry_id) # None
        THEN << table, entry_id >>
        ELSE NotFound

\* The lookup as the callers for feats, powers, items, rituals and
\* backgrounds perform it: the tables of the category, then the name index
NameLookup(db, name, tables) ==
    IF lookup_entry(db, name, tables) # NotFound THEN lookup_entry(db, name, tables)
    ELSE lookup_by_name_index(db, name)

\* ------------------------------------------------------------------------
\* State
\* ------------------------------------------------------------------------

VARIABLES
    source,        \* the source input: listing, name_index, xml, manual csv
    comp,          \* 4e_compendium.db, the canonical store
    gdb,           \* 4e_grants.db, the edges and the audit log
    review_csv,    \* not_found_manual_review.csv, its lines after the header
    last_summary,  \* the outcome counts printed by the last resolver run
    extract_report,\* what the last extractor run reported
    rc,            \* <<script, exit status>> of the last script run
    clock,         \* wall-clock time, one tick per build or extraction
    runs,          \* number of runs of each script so far
    arg,           \* argument of the function applied (function specs)
    result         \* its result

vars == << source, comp, gdb, review_csv, last_summary, extract_report, rc, clock, runs,
          arg, result >>

pipeline_vars == << source, comp, gdb, review_csv, last_summary, extract_report, rc, clock,
                   runs >>

\* Bound on the number of runs of each script
MaxRuns == 2

NoSummary == [ matched |-> -1, matched_name_search |-> -1, matched_manual |-> -1,
               not_found |-> -1, unmappable |-> -1 ]

NoRuns == [ build |-> 0, extract |-> 0, resolve |-> 0 ]

\* --- bounded inputs ---

Row(id, name, keywords) == [ id |-> id, name |-> name, keywords |-> keywords ]

Unit(rows) == [ exists |-> Len(rows) > 0, rows |-> rows ]

Listing(powers, items) ==
    [ c \in CATEGORIES |->
        IF c = "power" THEN Unit(powers)
        ELSE IF c = "feat" THEN Unit(<< Row("feat9001", "Example Feat", "") >>)
        ELSE IF c = "item" THEN Unit(items)
        ELSE IF c = "armor" THEN Unit(<< Row("armor5", "Black Iron Armor", "") >>)
        ELSE Unit(<<>>) ]

Listings ==
    { Listing(p, i) :
        p \in { <<>>, << Row("power435", "Example Power", "Fire, Cold, Implement") >> },
        i \in { <<>>, << Row("item50", "Black Iron Armor +2", "") >> } }

IndexEntry(name, ids) == [ name |-> name, ids |-> ids ]

NameIndexes ==
    { [ exists |-> FALSE, entries |-> <<>> ],
      [ exists |-> TRUE,
        entries |-> << IndexEntry("black iron armor", << "armor5" >>),
                       IndexEntry("example power", << "power435" >>) >> ],
      [ exists |-> TRUE,
        entries |-> << IndexEntry("example power", << "feat9001", "power435" >>),
                       IndexEntry("black iron armor", << "weapon9", "item50", "armor5" >>) >> ],
      [ exists |-> TRUE,
        entries |-> << IndexEntry("black iron armor +2", << "feat9001" >>),
                       IndexEntry("example power", << "power435" >>) >> ] }

Directive(tag, name, type, value, field) ==
    [ tag |-> tag, name |-> name, type |-> type, value |-> value, Field |-> field,
      field |-> None, requires |-> None, Level |-> None, list_addition |-> None ]

Element(id, type, name, rules) ==
    [ internal_id |-> id, type |-> type, name |-> name, has_rules |-> TRUE, rules |-> rules ]

ExampleFeat ==
    Element("ID_FMP_FEAT_9001", "Feat", "Example Feat",
        << Directive("grant", "ID_FMP_POWER_435", "Power", None, None),
           Directive("grant", "ID_FMP_POWER_436", None, None, None),
           Directive("textstring", "note", None, "x", None),
           Directive("statadd", "resist:fire", None, "+5", None),
           Directive("modify", "Example Feat", "Feat", "+1", None),
           Directive("modify", "Example Power", "Power", "+2", "Damage") >>)

ExamplePower ==
    Element("ID_FMP_POWER_435", "Power", "Example Power",
        << Directive("statadd", "damage", None, "1d6", None) >>)

BlackIronArmor ==
    Element("ID_FMP_MAGIC_ITEM_77", "Magic Item", "Black Iron Armor +2",
        << Directive("statadd", "Speed", None, None, None),
           Directive("statadd", "AC", "Enhancement", "+2", None),
           Directive("grant", None, "Power", None, None),
           Directive("grant", "ID_INTERNAL_5", "Internal", None, None),
           Directive("grant", "ID_FMP_FEAT_9001", "Feat", None, None) >>)

InternalElement ==
    Element("ID_INTERNAL_5", "Internal", "Example Power",
        << Directive("grant", "ID_FMP_CLASS_FEATURE_12", "Class Feature", None, None),
           Directive("grant", "ID_FMP_MAGIC_ITEM_77", "Magic Item", None, None),
           Directive("grant", "ID_FMP_BOGUS_3", "Bogus", None, None) >>)

ClassFeature ==
    Element("ID_FMP_CLASS_FEATURE_12", "Class Feature", "Example Power", <<>>)

\* An element that grants itself
SelfGranting ==
    Element("ID_FMP_POWER_435", "Power", "Example Power",
        << Directive("grant", "ID_FMP_POWER_435", "Power", None, None),
           Directive("grant", "ID_FMP_FEAT_9001", "Feat", None, None),
           Directive("statadd", "damage", None, "1d6", None) >>)

XmlFiles ==
    { << SelfGranting >>,
      << ExampleFeat >>,
      << ExamplePower, ExampleFeat, BlackIronArmor >>,
      << ExampleFeat, BlackIronArmor, InternalElement, ClassFeature >> }

ManualFiles ==
    { [ exists |-> FALSE, lines |-> <<>> ],
      [ exists |-> TRUE,
        lines |-> << "xml_id,compendium_id",
                     "ID_FMP_POWER_435,feat9001",
                     "ID_INTERNAL_5, power435",
                     "",
                     "ID_FMP_MAGIC_ITEM_77,item50",
                     "ID_FMP_FEAT_9001,power999" >> ] }

Sources ==
    { [ listing |-> l, name_index |-> n, xml |-> x, manual |-> m ] :
        l \in Listings, n \in NameIndexes, x \in XmlFiles, m \in ManualFiles }

NoArg == [ op |-> "none" ]

\* ------------------------------------------------------------------------
\* The pipeline: the three scripts, run in any order, any number of times
\* ------------------------------------------------------------------------

Init ==
    /\ source \in Sources
    /\ comp = NoDb
    /\ gdb = NoGrantsDb
    /\ review_csv = <<>>
    /\ last_summary = NoSummary
    /\ extract_report = NoReport
    /\ rc = << "none", 0 >>
    /\ clock = 0
    /\ runs = NoRuns
    /\ arg = NoArg
    /\ result = None

\* python3 build_compendium_db.py
RunBuild ==
    /\ runs.build < MaxRuns
    /\ \E order \in HashOrders :
         comp' = build_database(source, order, clock + 1)
    /\ clock' = clock + 1
    /\ runs' = [runs EXCEPT !.build = @ + 1]
    /\ rc' = << "build", 0 >>
    /\ UNCHANGED << source, gdb, review_csv, last_summary, extract_report, arg, result >>

\* python3 extract_grants.py
RunExtract ==
    /\ runs.extract < MaxRuns
    /\ gdb' = ExtractedDb(source.xml, clock + 1)
    /\ extract_report' = ExtractReport(source.xml, gdb')
    /\ clock' = clock + 1
    /\ runs' = [runs EXCEPT !.extract = @ + 1]
    /\ rc' = << "extract", 0 >>
    /\ UNCHANGED << source, comp, review_csv, last_summary, arg, result >>

\* RunResolve checking for the compendium only after the audit log has been
\* created afresh
RunResolve_LateCheck ==
    /\ runs.resolve < MaxRuns
    /\ runs' = [runs EXCEPT !.resolve = @ + 1]
    /\ IF ~gdb.exists
       THEN /\ rc' = << "resolve", 1 >>
            /\ UNCHANGED << gdb, review_csv, last_summary >>
       ELSE IF ~comp.exists
       THEN /\ gdb' = [gdb EXCEPT !.has_log = TRUE, !.log = <<>>]
            /\ rc' = << "resolve", 1 >>
            /\ UNCHANGED << review_csv, last_summary >>
       ELSE /\ gdb' = ResolvedDb(gdb, comp, source.manual)
            /\ review_csv' = ReviewCsv(gdb')
            /\ last_summary' = Summary(gdb')
            /\ rc' = << "resolve", 0 >>
    /\ UNCHANGED << source, comp, extract_report, clock, arg, result >>

\* python3 resolve_compendium_ids.py
RunResolve ==
    /\ runs.resolve < MaxRuns
    /\ runs' = [runs EXCEPT !.resolve = @ + 1]
    /\ IF ~gdb.exists \/ ~comp.exists
       THEN /\ rc' = << "resolve", 1 >>
            /\ UNCHANGED << gdb, review_csv, last_summary >>
       ELSE /\ gdb' = ResolvedDb(gdb, comp, source.manual)
            /\ review_csv' = ReviewCsv(gdb')
            /\ last_summary' = Summary(gdb')
            /\ rc' = << "resolve", 0 >>
    /\ UNCHANGED << source, comp, extract_report, clock, arg, result >>

Next == RunBuild \/ RunExtract \/ RunResolve

Spec == Init /\ [][Next]_vars

\* ------------------------------------------------------------------------
\* Properties of the resolution cascade
\* ------------------------------------------------------------------------

\* The audit records written by the last resolver run
AuditRows == IF gdb.has_log THEN Range(gdb.log) ELSE {}

\* The targets that the lines of manual_id_mappings.csv give for xml id x
OverrideTargets(x) ==
    IF ~source.manual.exists THEN {}
    ELSE { ManualEntry(l)[2] :
             l \in { m \in Range(source.manual.lines) :
                       Contains(m, ",") /\ ManualEntry(m)[1] = x } }

\* The directly derived candidate of x is an id of the store table of its type
DirectlyResolvable(x) ==
    LET d == xml_to_compendium_id(x)
    IN  Truthy(d.comp_id) /\ d.comp_id \in get_valid_ids(comp, d.table)

\* C1: a reference whose directly derived candidate id exists in the store
\* table of its type and which also has a manual override entry is recorded
\* as matched, method id, resolved to the derived candidate; the override
\* target is never the recorded result.
C1_DirectBeatsManual ==
    \A row \in AuditRows :
        (DirectlyResolvable(row.xml_id) /\ OverrideTargets(row.xml_id) # {}) =>
            /\ row.status = "matched"
            /\ row.resolution_method = "id"
            /\ row.resolved_compendium_id = xml_to_compendium_id(row.xml_id).comp_id
            /\ \A t \in OverrideTargets(row.xml_id) :
                  t # xml_to_compendium_id(row.xml_id).comp_id => row.resolved_compendium_id # t

\* A resolver run has recorded a directly resolvable reference whose manual
\* override names another stored entity
C1_Witness ==
    \E row \in AuditRows :
        /\ DirectlyResolvable(row.xml_id)
        /\ \E t \in OverrideTargets(row.xml_id) :
              t \in all_valid_ids(comp) /\ t # xml_to_compendium_id(row.xml_id).comp_id
        /\ row.status = "matched"

\* The type tag of a reference of the authoring family: the text between
\* the family marker and the last underscore
TypeTag(x) ==
    LET rest == RemoveFirst(x, FMP)
        cut == RFind(rest, "_")
    IN  IF cut = 0 THEN rest ELSE Prefix(rest, cut - 1)

NumericSuffix(x) ==
    LET rest == RemoveFirst(x, FMP)
    IN  Suffix(rest, RFind(rest, "_") + 1)

InFamily(x) == Contains(x, FMP)

\* The type tag is not in the type-to-category table or maps to no table
UnsupportedTag(x) ==
    TypeTag(x) \notin DOMAIN TYPE_MAP \/ TYPE_MAP[TypeTag(x)][1] = None

\* The name that the edges give to reference x, None when they give none
DisplayName(x) == DictGet(xml_id_to_name(gdb), x)

\* The stored entities that the name index lists under name
IndexedUnder(name) ==
    { r.entry_id : r \in { q \in Range(comp.name_index) :
                             q.name_lower = name /\ q.entry_id \in all_valid_ids(comp) } }

\* The compendium ids that the edges carry for reference x
EdgeIds(x) ==
    { g.granter_compendium_id :
        g \in { e \in Range(gdb.grants) \cup Range(gdb.stat_additions) \cup Range(gdb.modifies) :
                  e.granter_xml_id = x } }
    \cup { g.granted_compendium_id : g \in { e \in Range(gdb.grants) : e.granted_xml_id = x } }

\* C2: a reference outside the authoring family, or whose type tag is not
\* in the type-to-category table or maps to no table, is recorded as
\* unmappable with a reason and with no attempted and no resolved id; no
\* manual override and no name-index entry makes it resolve.
C2_Unmappable ==
    \A row \in AuditRows :
        (~InFamily(row.xml_id) \/ UnsupportedTag(row.xml_id)) =>
            /\ row.status = "unmappable"
            /\ Truthy(row.unmappable_reason)
            /\ row.attempted_compendium_id = None
            /\ row.resolved_compendium_id = None
            /\ EdgeIds(row.xml_id) = { None }

\* A resolver run has recorded a reference outside the family that has a
\* manual override with a stored target and a display name in the name
\* index, and one of the family whose tag maps to no table
C2_Witness ==
    /\ \E row \in AuditRows :
          /\ ~InFamily(row.xml_id)
          /\ OverrideTargets(row.xml_id) \cap all_valid_ids(comp) # {}
          /\ Truthy(DisplayName(row.xml_id))
          /\ IndexedUnder(lower(DisplayName(row.xml_id))) # {}
          /\ row.status = "unmappable"
    /\ \E row \in AuditRows :
          InFamily(row.xml_id) /\ UnsupportedTag(row.xml_id) /\ row.status = "unmappable"

\* A reference of the family with a recognised type tag and a numeric suffix
Mappable(x) == InFamily(x) /\ ~UnsupportedTag(x) /\ isdigit(NumericSuffix(x))

\* The candidate id that the type tag and the number of x derive
Candidate(x) == TYPE_MAP[TypeTag(x)][2] \o NumericSuffix(x)

\* The manual override of x that names a stored entity, None without one
ValidOverride(x) == DictGet(manual_mappings(source.manual, comp), x)

\* What the name search finds for x, None when it finds nothing
NameHit(x) ==
    IF Truthy(DisplayName(x)) THEN search_by_name(comp, DisplayName(x), TypeTag(x)) ELSE None

\* C3 as claimed: a mappable reference whose candidate is absent from the
\* store is recorded as not_found with the candidate as attempted id.
C3_Original ==
    \A row \in AuditRows :
        (Mappable(row.xml_id) /\ ~DirectlyResolvable(row.xml_id)) =>
            /\ row.status = "not_found"
            /\ row.attempted_compendium_id = Candidate(row.xml_id)

\* C3 amended: a mappable reference whose candidate is absent from the
\* store is recorded with the candidate as attempted id, and with status
\* not_found exactly when neither a manual override naming a stored entity
\* nor the name search resolves it (those give matched_manual and
\* matched_name_search).
C3_NotFound ==
    \A row \in AuditRows :
        (Mappable(row.xml_id) /\ ~DirectlyResolvable(row.xml_id)) =>
            /\ row.attempted_compendium_id = Candidate(row.xml_id)
            /\ row.status =
                  IF Truthy(ValidOverride(row.xml_id)) THEN "matched_manual"
                  ELSE IF Truthy(NameHit(row.xml_id)) THEN "matched_name_search"
                  ELSE "not_found"
            /\ row.status = "not_found" => row.resolved_compendium_id = None

\* A resolver run has recorded one such reference as not_found, one as
\* matched_manual or matched_name_search
C3_Witness ==
    /\ \E row \in AuditRows :
          Mappable(row.xml_id) /\ ~DirectlyResolvable(row.xml_id) /\ row.status = "not_found"
    /\ \E row \in AuditRows :
          /\ Mappable(row.xml_id) /\ ~DirectlyResolvable(row.xml_id)
          /\ row.status \in { "matched_manual", "matched_name_search" }

\* ------------------------------------------------------------------------
\* The name lookups as functions of a built store
\* The store is built from a listing and an index.js, then one lookup is
\* applied: the resolver's search_by_name or the sheet builder's lookup.
\* ------------------------------------------------------------------------

ShieldListing(armor) ==
    [ c \in CATEGORIES |->
        IF c = "item" THEN Unit(<< Row("item12", "Shield", "") >>)
        ELSE IF c = "armor" THEN Unit(armor)
        ELSE IF c = "weapon" THEN Unit(<< Row("weapon9", "Radiant Blade", "") >>)
        ELSE IF c = "power" THEN Unit(<< Row("power435", "Radiant Blade", "Radiant") >>)
        ELSE Unit(<<>>) ]

ArmorRows ==
    { << Row("armor7", "Shield", "") >>,
      << Row("armor7", "Shield", ""), Row("armor3", "Shield of Faith", "") >>,
      << Row("armor3", "Shield of Faith", ""), Row("armor7", "Heavy Shield", "") >>,
      << Row("armor7", "Shield", ""), Row("armor3", "Shield +2", "") >> }

ShieldIds == { << "item12", "armor7" >>, << "armor7", "item12" >> }

BladeIds ==
    { << "power435", "weapon9" >>, << "weapon9", "power435" >>,
      << "power999", "weapon9", "power435" >> }

SearchSources ==
    { [ listing |-> ShieldListing(a),
        name_index |-> [ exists |-> TRUE,
                         entries |-> << IndexEntry("shield", s),
                                        IndexEntry("radiant blade", b) >> ],
        xml |-> <<>>,
        manual |-> [ exists |-> FALSE, lines |-> <<>> ] ] :
        a \in ArmorRows, s \in ShieldIds, b \in BladeIds }

SearchQueries ==
    { [ op |-> "search_by_name", name |-> n, type_hint |-> h ] :
        n \in { "Shield", "  shield ", "Radiant Blade", "Radiant Blade +1",
                 "Radiant Blade Attack", "Shield +2", "Buckler" },
        h \in { "POWER", "FEAT", "MAGIC_ITEM", "WEAPON", "ARMOR", None } }

LookupQueries ==
    { [ op |-> "lookup", name |-> n, tables |-> t ] :
        n \in { "shield", "Shield +2", "Radiant Blade" },
        t \in { << "armor" >>, << "items" >>, << "powers" >>,
                << "items", "armor", "weapons", "implements" >> } }

InitSearch ==
    /\ source \in SearchSources
    /\ comp = build_database(source, DAMAGE_TYPES, 1)
    /\ gdb = NoGrantsDb
    /\ review_csv = <<>>
    /\ last_summary = NoSummary
    /\ extract_report = NoReport
    /\ rc = << "build", 0 >>
    /\ clock = 1
    /\ runs = [NoRuns EXCEPT !.build = 1]
    /\ arg \in SearchQueries \cup LookupQueries
    /\ result = None

\* search_by_name(name, type_hint) of the resolver
ApplySearch ==
    /\ rc[1] = "build"
    /\ arg.op = "search_by_name"
    /\ result' = search_by_name(comp, arg.name, arg.type_hint)
    /\ rc' = << "search_by_name", 0 >>
    /\ UNCHANGED << source, comp, gdb, review_csv, last_summary, extract_report, clock, runs, arg >>

\* lookup_entry(conn, name, tables), then lookup_by_name_index(conn, name)
ApplyLookup ==
    /\ rc[1] = "build"
    /\ arg.op = "lookup"
    /\ result' = NameLookup(comp, arg.name, arg.tables)
    /\ rc' = << "lookup", 0 >>
    /\ UNCHANGED << source, comp, gdb, review_csv, last_summary, extract_report, clock, runs, arg >>

NextSearch == ApplySearch \/ ApplyLookup

SpecSearch == InitSearch /\ [][NextSearch]_vars

\* Entry ids of the name-index rows of a lowercased name, in row order
IndexedIds(name_lower) == name_to_ids(comp, name_lower)

\* The category prefix of an entity id: its letters before the number
CategoryPrefix(eid) == LeadingLower(eid)

\* The ids among `ids` whose category the type hint expects
Expected(ids, type_hint) ==
    { i \in 1..Len(ids) : InSeq(CategoryPrefix(ids[i]), AcceptablePrefixes(type_hint)) }

\* The case of C4: the searched name is indexed under exactly two stored
\* entities of different categories, one of them of an expected category
TwoCategories ==
    LET ids == IndexedIds(lower(strip(arg.name)))
    IN  /\ Len(ids) = 2
        /\ \A i \in 1..2 : ids[i] \in all_valid_ids(comp)
        /\ CategoryPrefix(ids[1]) # CategoryPrefix(ids[2])
        /\ Cardinality(Expected(ids, arg.type_hint)) = 1

\* C4: category-prefix filtering.  When the name index maps the searched
\* name to two valid entity ids of different categories and the expected
\* category-prefix set of the type hint contains the prefix of only one of
\* them, search_by_name returns that one, whichever comes first in the
\* index.
C4_PrefixFiltering ==
    (rc[1] = "search_by_name" /\ TwoCategories) =>
        LET ids == IndexedIds(lower(strip(arg.name)))
        IN  \A i \in Expected(ids, arg.type_hint) : result = ids[i]

\* The expected entity is the second of the two in the index, and the
\* search has returned it
C4_Witness ==
    /\ rc[1] = "search_by_name"
    /\ TwoCategories
    /\ Expected(IndexedIds(lower(strip(arg.name))), arg.type_hint) = {2}
    /\ result = IndexedIds(lower(strip(arg.name)))[2]

\* C5: ambiguous name index.  With the name-index rows (shield, item12) and
\* (shield, armor7) both present and both entities stored, the lookup of
\* "shield" with the armor tables as its category hint returns armor7,
\* whatever the order of the two rows.
C5_AmbiguousIndex ==
    ( /\ rc[1] = "lookup"
      /\ arg.name = "shield"
      /\ arg.tables = << "armor" >>
      /\ \A e \in { "item12", "armor7" } :
            \E r \in Range(comp.name_index) : r.name_lower = "shield" /\ r.entry_id = e
      /\ \E r \in Range(comp.tables["items"]) : r.id = "item12"
      /\ \E r \in Range(comp.tables["armor"]) : r.id = "armor7" )
    => result = << "armor", "armor7" >>

\* ------------------------------------------------------------------------
\* Properties of the pipeline as a whole
\* ------------------------------------------------------------------------

\* The last script run was the resolver and it ran to the end
Resolved == rc = << "resolve", 0 >>

\* C6: end-to-end direct resolution.  With power435 in the powers table,
\* after resolution every grant edge whose granted reference is the
\* POWER-tagged authoring reference numbered 435 carries
\* granted_compendium_id power435, and the audit record of the reference
\* has status matched and method id.
C6_EndToEnd ==
    (Resolved /\ \E r \in Range(comp.tables["powers"]) : r.id = "power435") =>
        /\ \A g \in Range(gdb.grants) :
              g.granted_xml_id = "ID_FMP_POWER_435" => g.granted_compendium_id = "power435"
        /\ \A row \in AuditRows :
              row.xml_id = "ID_FMP_POWER_435" =>
                  /\ row.status = "matched"
                  /\ row.resolution_method = "id"
                  /\ row.resolved_compendium_id = "power435"
        /\ (\E g \in Range(gdb.grants) : g.granted_xml_id = "ID_FMP_POWER_435")
              => \E row \in AuditRows : row.xml_id = "ID_FMP_POWER_435"

\* The feat "Example Feat" grants the power, power435 is stored, and the
\* resolver has written the edge and the audit record
C6_Witness ==
    /\ Resolved
    /\ \E r \in Range(comp.tables["powers"]) : r.id = "power435"
    /\ \E g \in Range(gdb.grants) :
          /\ g.granter_xml_id = "ID_FMP_FEAT_9001" /\ g.granter_name = "Example Feat"
          /\ g.granted_xml_id = "ID_FMP_POWER_435"
          /\ g.granted_compendium_id = "power435"
    /\ \E row \in AuditRows : row.xml_id = "ID_FMP_POWER_435" /\ row.status = "matched"

\* The stored entities of a category expected for reference x that the
\* name index lists under name, in index order
ExpectedIndexed(x, name) ==
    SeqFilter(name_to_ids(comp, name),
              LAMBDA eid : /\ eid \in all_valid_ids(comp)
                           /\ InSeq(CategoryPrefix(eid), AcceptablePrefixes(TypeTag(x))))

\* The tables of the categories expected for reference x
ExpectedTables(x) ==
    { category_table_map[i][2] :
        i \in { j \in 1..Len(category_table_map) :
                  InSeq(category_table_map[j][1], AcceptablePrefixes(TypeTag(x))) } }

\* A stored entity of an expected category bears this very name
EntityNamed(x, name) ==
    \E t \in ExpectedTables(x) : \E r \in Range(comp.tables[t]) : lower(r.name) = lower(name)

\* The case of C7: the direct candidate and the manual override of x fail,
\* x is named "Black Iron Armor +2", the index has no row for that name and
\* lists a stored entity of an expected category under "black iron armor"
PlusTwoCase(x) ==
    /\ Mappable(x)
    /\ ~DirectlyResolvable(x)
    /\ ValidOverride(x) = None
    /\ DisplayName(x) = "Black Iron Armor +2"
    /\ name_to_ids(comp, "black iron armor +2") = <<>>
    /\ ExpectedIndexed(x, "black iron armor") # <<>>

\* C7 as claimed: such a reference is recorded as matched_name_search with
\* the id of an entity that the index lists under "black iron armor".
C7_Original ==
    \A row \in AuditRows :
        PlusTwoCase(row.xml_id) =>
            /\ row.status = "matched_name_search"
            /\ row.resolved_compendium_id \in Range(ExpectedIndexed(row.xml_id, "black iron armor"))

\* C7 amended: when, besides, no stored entity of an expected category is
\* itself named "Black Iron Armor +2", the reference is recorded as
\* matched_name_search with the id of the first stored entity of an
\* expected category that the index lists under "black iron armor".
C7_NameVariant ==
    \A row \in AuditRows :
        (PlusTwoCase(row.xml_id) /\ ~EntityNamed(row.xml_id, "Black Iron Armor +2")) =>
            /\ row.status = "matched_name_search"
            /\ row.resolution_method = "name_search"
            /\ row.resolved_compendium_id = ExpectedIndexed(row.xml_id, "black iron armor")[1]
            /\ row.attempted_compendium_id = Candidate(row.xml_id)

\* The reference named "Black Iron Armor +2" has been resolved to armor5
\* through the index row of "black iron armor"
C7_Witness ==
    \E row \in AuditRows :
        /\ PlusTwoCase(row.xml_id)
        /\ ~EntityNamed(row.xml_id, "Black Iron Armor +2")
        /\ row.status = "matched_name_search"
        /\ row.resolved_compendium_id = "armor5"

\* C8: idempotence.  A rebuild of the store from the same source leaves
\* the store as it was, and a further resolver run reports the same count
\* of audit records for each status.
C8_Idempotence ==
    [][ /\ (comp.exists /\ comp'.exists) => comp' = comp
        /\ (last_summary # NoSummary /\ rc' = << "resolve", 0 >>)
              => last_summary' = last_summary ]_vars

\* The references that occur in an edge, in any of the four roles
EdgeRefs ==
    { x \in { g.granter_xml_id : g \in Range(gdb.grants) }
              \cup { g.granted_xml_id : g \in Range(gdb.grants) }
              \cup { r.granter_xml_id : r \in Range(gdb.stat_additions) }
              \cup { r.granter_xml_id : r \in Range(gdb.modifies) } : Truthy(x) }

\* C10: audit deduplication.  After a resolver run the audit log holds
\* exactly one record for each distinct reference that occurs in an edge,
\* as granter or granted target of a grant or as granter of a stat
\* addition or a modification, and no record of an earlier run.
C10_OnePerReference ==
    Resolved =>
        /\ { gdb.log[i].xml_id : i \in 1..Len(gdb.log) } = EdgeRefs
        /\ Len(gdb.log) = Cardinality(EdgeRefs)

\* The second resolver run has ended with a reference that occurs only as
\* a granted target and one that occurs in all three kinds of edge
C10_Witness ==
    /\ Resolved
    /\ runs.resolve = 2 /\ runs.extract = 1 /\ runs.build = 1
    /\ \E x \in EdgeRefs :
          /\ \A g \in Range(gdb.grants) \cup Range(gdb.stat_additions) \cup Range(gdb.modifies) :
                g.granter_xml_id # x
          /\ \E i \in 1..Len(gdb.log) : gdb.log[i].xml_id = x
    /\ \E x \in EdgeRefs :
          /\ \E g \in Range(gdb.grants) : g.granter_xml_id = x
          /\ \E r \in Range(gdb.stat_additions) : r.granter_xml_id = x
          /\ \E r \in Range(gdb.modifies) : r.granter_xml_id = x
          /\ Cardinality({ i \in 1..Len(gdb.log) : gdb.log[i].xml_id = x }) = 1

\* ------------------------------------------------------------------------
\* The payload decoder as a function
\* The payloads are arrays and objects of quoted strings, integers and
\* null, written with or without a trailing comma before each closing
\* bracket or brace, and two that no repair makes valid.
\* ------------------------------------------------------------------------

\* The text between the quotes of a string value
JsonBodies ==
    { "a", "x,]y", "q, }", "\\U", "\\\\U", "\\n", "\\user" }

JsonItems == { "\"" \o b \o "\"" : b \in JsonBodies } \cup { "12", "null" }

TrailingCommas == { "", ",", ", " }

OneItem(x, t) == "[" \o x \o t \o "]"

TwoItems(x, y, t) == "[" \o x \o ", " \o y \o t \o "]"

Object(x, t) == "{\"k\": " \o x \o t \o "}"

JsonPayloads ==
    { OneItem(x, t) : x \in JsonItems, t \in TrailingCommas }
    \cup { TwoItems(x, y, t) : x \in JsonItems, y \in JsonItems, t \in TrailingCommas }
    \cup { Object(x, t) : x \in JsonItems, t \in TrailingCommas }
    \cup { TwoItems(Object(x, t), y, u) :
             x \in JsonItems, y \in JsonItems, t \in TrailingCommas, u \in TrailingCommas }
    \cup { "[" \o x : x \in JsonItems }
    \cup { "[," \o x \o "]" : x \in JsonItems }

NoSource ==
    [ listing |-> [c \in CATEGORIES |-> Unit(<<>>)],
      name_index |-> [ exists |-> FALSE, entries |-> <<>> ],
      xml |-> <<>>,
      manual |-> [ exists |-> FALSE, lines |-> <<>> ] ]

InitJson ==
    /\ source = NoSource
    /\ comp = NoDb
    /\ gdb = NoGrantsDb
    /\ review_csv = <<>>
    /\ last_summary = NoSummary
    /\ extract_report = NoReport
    /\ rc = << "none", 0 >>
    /\ clock = 0
    /\ runs = NoRuns
    /\ arg \in { [ op |-> "safe_json_loads", text |-> t ] : t \in JsonPayloads }
    /\ result = None

\* safe_json_loads(s)
ApplyLoads ==
    /\ rc[1] = "none"
    /\ arg.op = "safe_json_loads"
    /\ result' = safe_json_loads(arg.text)
    /\ rc' = << "safe_json_loads", 0 >>
    /\ UNCHANGED << source, comp, gdb, review_csv, last_summary, extract_report, clock, runs, arg >>

NextJson == ApplyLoads

SpecJson == InitJson /\ [][NextJson]_vars

\* A backslash at the head of s starts a valid JSON escape
ValidEscape(s) ==
    \/ CharAt(s, 2) \in EscapeLetters \ { "u" }
    \/ CharAt(s, 2) = "u" /\ \A k \in 3..6 : IsHex(CharAt(s, k))

\* The payload fixed by hand: outside the strings every comma that only
\* whitespace separates from a closing bracket or brace is removed, and
\* inside them every backslash that starts no valid escape is escaped
RECURSIVE HandFix(_, _)
HandFix(s, in_string) ==
    LET c == CharAt(s, 1)
        close == SetMin({ j \in 2..(Len(s) + 1) : ~JsonSpace(CharAt(s, j)) })
    IN  IF s = "" THEN ""
        ELSE IF in_string /\ c = "\\"
        THEN IF ValidEscape(s) THEN Prefix(s, 2) \o HandFix(Suffix(s, 3), TRUE)
             ELSE "\\\\" \o HandFix(Suffix(s, 2), TRUE)
        ELSE IF in_string THEN c \o HandFix(Suffix(s, 2), c # "\"")
        ELSE IF c = "," /\ CharAt(s, close) \in { "}", "]" } THEN HandFix(Suffix(s, 2), FALSE)
        ELSE c \o HandFix(Suffix(s, 2), c = "\"")

HandFixed(s) == HandFix(s, FALSE)

\* C9: malformed payload tolerance.  For every payload that differs from a
\* strictly valid one only by trailing commas before a closing bracket or
\* brace and by invalid backslash escapes, safe_json_loads succeeds and
\* returns the tree of the hand-fixed text, also when string values of the
\* payload contain a comma before a bracket or an escaped backslash.
C9_Tolerance ==
    (rc[1] = "safe_json_loads" /\ json_loads(HandFixed(arg.text)).ok) =>
        /\ result # None
        /\ result = PyValue(json_loads(HandFixed(arg.text)))

\* ------------------------------------------------------------------------
\* Properties of the audit log and of the edges after a resolver run
\* ------------------------------------------------------------------------

\* C11: every audit record with a resolved id records a category, and the
\* resolved id is an entity id of that category of the store, whether the
\* match is by id, by manual override or by name search.
C11_ResolvedIdValid ==
    \A row \in AuditRows :
        row.resolved_compendium_id # None =>
            /\ row.compendium_table # None
            /\ row.resolved_compendium_id \in get_valid_ids(comp, row.compendium_table)

\* An edge table without what the resolver is allowed to write
Unresolved(rows) ==
    [i \in 1..Len(rows) |->
        IF "granted_compendium_id" \in DOMAIN rows[i]
        THEN [rows[i] EXCEPT !.granter_compendium_id = None, !.granted_compendium_id = None]
        ELSE [rows[i] EXCEPT !.granter_compendium_id = None]]

\* C12: a resolver run adds no edge, removes none, and changes no field of
\* an edge other than the resolved compendium-id fields: the external
\* references, type tags, display names, ordinal and payload stay.
C12_Additive ==
    [][ runs'.resolve # runs.resolve =>
          /\ Unresolved(gdb'.grants) = Unresolved(gdb.grants)
          /\ Unresolved(gdb'.stat_additions) = Unresolved(gdb.stat_additions)
          /\ Unresolved(gdb'.modifies) = Unresolved(gdb.modifies)
          /\ gdb'.extracted_at = gdb.extracted_at ]_vars

\* A resolver run has written resolved ids into edges of all three kinds
C12_Witness ==
    /\ rc = << "resolve", 0 >>
    /\ \E g \in Range(gdb.grants) :
          g.granter_compendium_id # None /\ g.granted_compendium_id # None
    /\ \E s \in Range(gdb.stat_additions) : s.granter_compendium_id # None
    /\ \E m \in Range(gdb.modifies) : m.granter_compendium_id # None

\* The override targets of x that are entity ids of the store
StoredTargets(x) == OverrideTargets(x) \cap all_valid_ids(comp)

\* C13: a manual override whose target is not in the store is not applied:
\* the reference is recorded exactly as without any override file (so the
\* name search decides), and the run ends with status 0; an override whose
\* target is stored is applied only when the direct candidate fails, and
\* then the record is matched_manual with that target.
C13_ManualValidation ==
    /\ \A row \in AuditRows :
          /\ (OverrideTargets(row.xml_id) # {} /\ StoredTargets(row.xml_id) = {}) =>
                /\ row.status # "matched_manual"
                /\ row = ResolveOne(row.xml_id, gdb, comp, <<>>)
          /\ row.status = "matched_manual" =>
                /\ ~DirectlyResolvable(row.xml_id)
                /\ row.resolved_compendium_id \in StoredTargets(row.xml_id)
          /\ (StoredTargets(row.xml_id) # {} /\ Mappable(row.xml_id)
                /\ ~DirectlyResolvable(row.xml_id)) =>
                /\ row.status = "matched_manual"
                /\ row.resolved_compendium_id \in StoredTargets(row.xml_id)
    /\ (rc[1] = "resolve" /\ gdb.exists /\ comp.exists) => rc[2] = 0

\* A resolver run has met an override with a target missing from the store
\* on a reference whose direct candidate fails and has gone on to resolve
\* it by name, and has applied an override with a stored target
C13_Witness ==
    /\ rc = << "resolve", 0 >>
    /\ \E row \in AuditRows :
          /\ OverrideTargets(row.xml_id) # {} /\ StoredTargets(row.xml_id) = {}
          /\ Mappable(row.xml_id) /\ ~DirectlyResolvable(row.xml_id)
          /\ row.status = "matched_name_search"
    /\ \E row \in AuditRows :
          StoredTargets(row.xml_id) # {} /\ row.status = "matched_manual"

\* C14: a resolver run requested while the compendium or the grants
\* database does not exist ends with a non-zero status and writes nothing:
\* no audit log is created, no edge is modified, no review file is written.
C14_FatalWithoutStores ==
    [][ (runs'.resolve # runs.resolve /\ (~comp.exists \/ ~gdb.exists)) =>
          /\ rc'[1] = "resolve" /\ rc'[2] # 0
          /\ gdb' = gdb
          /\ comp' = comp
          /\ review_csv' = review_csv
          /\ last_summary' = last_summary ]_vars

\* The resolver has been run on extracted edges before any compendium was
\* built: it failed, and the edges are unresolved and without audit log
C14_Witness ==
    /\ rc = << "resolve", 1 >>
    /\ gdb.exists /\ ~comp.exists
    /\ Len(gdb.grants) > 0
    /\ ~gdb.has_log
    /\ \A g \in Range(gdb.grants) :
          g.granter_compendium_id = None /\ g.granted_compendium_id = None

\* The references that the last resolver run has left unresolved
Leftovers == { row \in AuditRows : row.status \in { "not_found", "unmappable" } }

\* C15: a resolver run on existing stores ends with status zero exactly
\* when it leaves no reference not_found or unmappable.
C15_ExitStatus ==
    (rc[1] = "resolve" /\ gdb.exists /\ comp.exists) =>
        (rc[2] = 0 <=> Leftovers = {})

\* ------------------------------------------------------------------------
\* Properties of the extracted edges
\* ------------------------------------------------------------------------

\* The rule-bearing entities of the source
Entities == { e \in Range(source.xml) : e.has_rules }

\* All edges that the grants database holds for owner id
OwnedEdges(id) ==
    { e \in Range(gdb.grants) \cup Range(gdb.stat_additions) \cup Range(gdb.modifies) :
        e.granter_xml_id = id }

\* What an edge is about: its kind and the name attribute of its directive
EdgeKey(e) ==
    << e.kind,
       IF e.kind = "grant" THEN e.granted_xml_id
       ELSE IF e.kind = "statadd" THEN e.stat_name ELSE e.target_name >>

\* A directive of one of the three kinds that lacks a required attribute
Deficient(child) ==
    \/ child.tag = "grant" /\ (child.name = None \/ child.type = None)
    \/ child.tag = "statadd" /\ (child.name = None \/ child.value = None)
    \/ child.tag = "modify" /\ (child.name = None \/ (child.Field = None /\ child.field = None))

\* The directives of an entity that are of the three kinds and complete
Complete(elem) ==
    SeqFilter(elem.rules,
              LAMBDA c : c.tag \in { "grant", "statadd", "modify" } /\ ~Deficient(c))

\* Every complete directive of elem has emitted its edge, and elem owns no
\* other edge
EmittedComplete(elem) ==
    /\ Cardinality(OwnedEdges(elem.internal_id)) = Len(Complete(elem))
    /\ \A i \in 1..Len(Complete(elem)) :
          \E e \in OwnedEdges(elem.internal_id) :
              EdgeKey(e) = << Complete(elem)[i].tag, Complete(elem)[i].name >>

\* The extractor's report has an entry for elem
Logged(elem) == \E entry \in Range(extract_report.errors) : entry[1] = elem.internal_id

\* C16: after an extraction, a deficient directive has emitted no edge and
\* has left an entry for its entity in the extractor's report, and every
\* complete directive of every entity, also one that follows a deficient
\* one, has emitted its edge.
C16_DirectiveRecovery ==
    gdb.exists =>
        \A elem \in Entities :
            /\ EmittedComplete(elem)
            /\ (\E c \in Range(elem.rules) : Deficient(c)) => Logged(elem)

\* The edges of set S in the order of their ordinals (S without two edges
\* of one ordinal)
ByOrdinal(S) ==
    [i \in 1..Cardinality(S) |->
        CHOOSE e \in S : Cardinality({ f \in S : f.ordinal < e.ordinal }) = i - 1]

\* C17: for every rule-bearing entity no two of its edges, of whatever
\* kinds, share an ordinal, and its edges taken in the order of their
\* ordinals are the edges of its complete directives in the order of the
\* rule block, skipped directives and directives of other kinds left out.
C17_OrdinalOrder ==
    gdb.exists =>
        \A elem \in Entities :
            /\ \A e, f \in OwnedEdges(elem.internal_id) : e.ordinal = f.ordinal => e = f
            /\ Cardinality(OwnedEdges(elem.internal_id)) = Len(Complete(elem))
            /\ \A i \in 1..Len(Complete(elem)) :
                  EdgeKey(ByOrdinal(OwnedEdges(elem.internal_id))[i])
                      = << Complete(elem)[i].tag, Complete(elem)[i].name >>

\* An extraction has written the edges of an entity whose rule block mixes
\* the three kinds with skipped directives and a directive of another kind
C17_Witness ==
    /\ gdb.exists
    /\ \E elem \in Entities :
          /\ \E c \in Range(elem.rules) : Deficient(c)
          /\ \E c \in Range(elem.rules) : c.tag \notin { "grant", "statadd", "modify" }
          /\ { e.kind : e \in OwnedEdges(elem.internal_id) } = { "grant", "statadd", "modify" }
          /\ \E i \in 1..Len(elem.rules) :
                /\ Deficient(elem.rules[i])
                /\ \E j \in 1..(i - 1) : elem.rules[j] \in Range(Complete(elem))
                /\ \E j \in (i + 1)..Len(elem.rules) : elem.rules[j] \in Range(Complete(elem))

\* ------------------------------------------------------------------------
\* build_compendium_db.py: reading the fields of a listing row
\* A listing is a list of column names and rows of cells.  A cell is
\* [list, items]: a JSON string s is [list |-> FALSE, items |-> <<s>>], a
\* JSON list of strings is [list |-> TRUE, items |-> its elements].
\* ------------------------------------------------------------------------

Str(s) == [ list |-> FALSE, items |-> << s >> ]

List(items) == [ list |-> TRUE, items |-> items ]

\* Lists become their first element as display value
normalize_value(val) ==
    IF val.list THEN (IF Len(val.items) > 0 THEN val.items[1] ELSE None)
    ELSE val.items[1]

\* Categories and their listing columns
CATEGORY_SCHEMAS ==
    [ power |-> << "ID", "Name", "ClassName", "Level", "Type", "Action", "Keywords",
                   "SourceBook" >>,
      feat |-> << "ID", "Name", "Tier", "Prerequisite", "SourceBook" >> ]

\* col_map = {col: idx for idx, col in enumerate(columns)} and
\* col_map.get(name, default): the 0-based index of the column, the last
\* one of that name
col_map_get(columns, name, default) ==
    IF \A i \in 1..Len(columns) : columns[i] # name THEN default
    ELSE (CHOOSE i \in 1..Len(columns) :
            columns[i] = name /\ \A j \in (i + 1)..Len(columns) : columns[j] # name) - 1

\* normalize_value(row[col_map.get(name, d)] if len(row) > col_map.get(name, d) else '')
PowerCell(columns, row, name, default) ==
    IF Len(row) > col_map_get(columns, name, default)
    THEN normalize_value(row[col_map_get(columns, name, default) + 1])
    ELSE ""

\* The row is skipped: the except branch of the loop
RowError == [ error |-> TRUE ]

\* insert_powers: the listing fields of one row as they go into the INSERT;
\* row[col_map.get('ID', 0)] is read without a length check.  (Level is
\* read like the others, but not normalized.)
PowerFields(columns, row) ==
    IF Len(row) <= col_map_get(columns, "ID", 0) THEN RowError
    ELSE [ id |-> normalize_value(row[col_map_get(columns, "ID", 0) + 1]),
           name |-> PowerCell(columns, row, "Name", 1),
           class_name |-> PowerCell(columns, row, "ClassName", 2),
           type_raw |-> PowerCell(columns, row, "Type", 4),
           action |-> PowerCell(columns, row, "Action", 5),
           keywords_raw |-> PowerCell(columns, row, "Keywords", 6),
           source_book |-> PowerCell(columns, row, "SourceBook", 7) ]

\* Column mappings for generic insert: table column -> listing column
generic_mappings ==
    [ feats |-> [ id |-> "ID", name |-> "Name", tier |-> "Tier",
                  prerequisite |-> "Prerequisite", source_book |-> "SourceBook" ] ]

\* insert_generic: the dict values of one row
GenericValues(columns, row, col_mapping) ==
    [ table_col \in DOMAIN col_mapping |->
        IF col_map_get(columns, col_mapping[table_col], -1) # -1
           /\ col_map_get(columns, col_mapping[table_col], -1) < Len(row)
        THEN normalize_value(row[col_map_get(columns, col_mapping[table_col], -1) + 1])
        ELSE None ]

\* --- bounded inputs ---

\* The largest number of cells of a row
MaxCells == 8

Cells(n) == [i \in 1..n |-> Str("c" \o IntToStr(i))]

\* Rows of 0 to MaxCells cells, some with a list as second cell
ListingRows ==
    { Cells(n) : n \in { 0, 1, 2, 5, MaxCells } }
    \cup { [Cells(n) EXCEPT ![2] = List(<< "360+ gp", "360" >>)] : n \in { 2, 5, MaxCells } }

\* Column lists of a category: the declared one, one whose Name column has
\* another name, one whose last column has another name, one in another
\* order
ColumnLists(category) ==
    { CATEGORY_SCHEMAS[category],
      [CATEGORY_SCHEMAS[category] EXCEPT ![2] = "Title"],
      [CATEGORY_SCHEMAS[category] EXCEPT ![Len(CATEGORY_SCHEMAS[category])] = "Book"],
      [CATEGORY_SCHEMAS[category] EXCEPT ![1] = "Name", ![2] = "ID"] }

InitColumns ==
    /\ source = NoSource
    /\ comp = NoDb
    /\ gdb = NoGrantsDb
    /\ review_csv = <<>>
    /\ last_summary = NoSummary
    /\ extract_report = NoReport
    /\ rc = << "none", 0 >>
    /\ clock = 0
    /\ runs = NoRuns
    /\ arg \in { [ op |-> "insert", category |-> c, columns |-> cols, row |-> r ] :
                   c \in { "power" }, cols \in ColumnLists("power"), r \in ListingRows }
               \cup { [ op |-> "insert", category |-> c, columns |-> cols, row |-> r ] :
                        c \in { "feat" }, cols \in ColumnLists("feat"), r \in ListingRows }
    /\ result = None

\* One pass of the loop of insert_powers or insert_generic: the fields read
\* from the row
ApplyInsert ==
    /\ rc[1] = "none"
    /\ arg.op = "insert"
    /\ result' = IF arg.category = "power" THEN PowerFields(arg.columns, arg.row)
                 ELSE GenericValues(arg.columns, arg.row, generic_mappings.feats)
    /\ rc' = << "insert", 0 >>
    /\ UNCHANGED << source, comp, gdb, review_csv, last_summary, extract_report, clock, runs, arg >>

NextColumns == ApplyInsert

SpecColumns == InitColumns /\ [][NextColumns]_vars

\* The declared listing column of each field read, per category
FieldColumn ==
    [ power |-> [ id |-> "ID", name |-> "Name", class_name |-> "ClassName",
                  type_raw |-> "Type", action |-> "Action", keywords_raw |-> "Keywords",
                  source_book |-> "SourceBook" ],
      feat |-> generic_mappings.feats ]

\* The 1-based position of a column name in a column list, 0 when absent
Position(columns, name) ==
    IF \A i \in 1..Len(columns) : columns[i] # name THEN 0
    ELSE CHOOSE i \in 1..Len(columns) : columns[i] = name

\* C18: for every category and every field read from a row, when the
\* declared column name is in the listing's column list the field is the
\* cell at that column's index, and when it is absent the field is the cell
\* at the field's default index (its position in the declared columns of the
\* category), not empty.
C18_PositionalFallback ==
    (rc = << "insert", 0 >> /\ result # RowError) =>
        \A f \in DOMAIN FieldColumn[arg.category] :
            LET named == Position(arg.columns, FieldColumn[arg.category][f])
                default == Position(CATEGORY_SCHEMAS[arg.category], FieldColumn[arg.category][f])
            IN  /\ (named # 0 /\ named <= Len(arg.row)) =>
                      result[f] = normalize_value(arg.row[named])
                /\ (named = 0 /\ default <= Len(arg.row)) =>
                      result[f] = normalize_value(arg.row[default])

\* ------------------------------------------------------------------------
\* The name lookup of the sheet builder against the name search of the
\* resolver
\* ------------------------------------------------------------------------

\* The tables the sheet builder searches for a category: the four item
\* tables for an item, the table of the category otherwise
SheetTables(type_hint) ==
    IF type_hint \in {"MAGIC_ITEM", "ITEM"}
    THEN << "items", "armor", "weapons", "implements" >>
    ELSE LET prefixes == SeqFilter(AcceptablePrefixes(type_hint),
                                   LAMBDA p : p \in DOMAIN SHEET_TABLE_MAP)
         IN  [i \in 1..Len(prefixes) |-> SHEET_TABLE_MAP[prefixes[i]]]

\* The name search of the resolver has resolved the name to an entity of
\* the hinted category
ResolvedInCategory ==
    /\ rc[1] = "search_by_name"
    /\ Truthy(result)
    /\ InSeq(CategoryPrefix(result), AcceptablePrefixes(arg.type_hint))
    /\ CategoryPrefix(result) \in DOMAIN SHEET_TABLE_MAP

\* C19: the name lookup replicates the cascade of the resolver.  Every name
\* that the name search of the resolver resolves to an entity of the hinted
\* category is also found by the name lookup of the sheet builder for that
\* category, and with the same entity.
C19_SameCascade ==
    ResolvedInCategory =>
        NameLookup(comp, arg.name, SheetTables(arg.type_hint))
            = << SHEET_TABLE_MAP[CategoryPrefix(result)], result >>

\* ------------------------------------------------------------------------
\* build_compendium_db.py: splitting the payload of a listing file
\* A content is the text of a _listing.js file; a parsed list is the
\* canonical text that json_loads gives for it.
\* ------------------------------------------------------------------------

\* Extract the JSON payload from a JSONP file: the text between the first
\* opening and the last closing parenthesis.  The modelled contents carry
\* no byte-order mark.
extract_jsonp_payload(content) ==
    LET Args(c, paren_start, paren_end) ==
            IF paren_start = 0 THEN None
            ELSE IF paren_end = 0 THEN None
            ELSE Slice(c, paren_start + 1, paren_end - 1)
        Stripped(c) == Args(c, Find(c, "("), RFind(c, ")"))
    IN  Stripped(strip(content))

\* for i, char in enumerate(json_part): the position of the first closing
\* bracket that brings bracket_depth back to 0, or 0 when the loop ends
\* without one (columns_end stays -1)
RECURSIVE ColumnsEnd(_, _, _)
ColumnsEnd(json_part, i, bracket_depth) ==
    IF i > Len(json_part) THEN 0
    ELSE IF CharAt(json_part, i) = "[" THEN ColumnsEnd(json_part, i + 1, bracket_depth + 1)
    ELSE IF CharAt(json_part, i) = "]"
    THEN IF bracket_depth - 1 = 0 THEN i
         ELSE ColumnsEnd(json_part, i + 1, bracket_depth - 1)
    ELSE ColumnsEnd(json_part, i + 1, bracket_depth)

\* str.rstrip(')')
RECURSIVE RStripParen(_)
RStripParen(s) ==
    IF Len(s) > 0 /\ CharAt(s, Len(s)) = ")" THEN RStripParen(Prefix(s, Len(s) - 1)) ELSE s

\* return [], []
NoListing == << "[]", "[]" >>

\* The element of a one-element set: the value of an expression, computed
\* once and bound to a name
Only(S) == CHOOSE x \in S : TRUE

\* columns = safe_json_loads(columns_str); rows = safe_json_loads(rows_str);
\* [], [] when either is None
LoadLists(columns_str, rows_str) ==
    Only({ IF columns = None \/ rows = None THEN NoListing ELSE << columns, rows >> :
             columns \in { safe_json_loads(columns_str) },
             rows \in { safe_json_loads(rows_str) } })

\* The rows list starts at the first opening bracket of what remains after
\* the columns list
SplitRemaining(columns_str, remaining) ==
    IF Find(remaining, "[") = 0 THEN NoListing
    ELSE LoadLists(columns_str, RStripParen(Suffix(remaining, Find(remaining, "["))))

\* The columns list ends where the bracket depth returns to 0
SplitJsonPart(json_part) ==
    Only({ IF columns_end = 0 THEN NoListing
           ELSE Only({ SplitRemaining(columns_str, remaining) :
                         columns_str \in { Prefix(json_part, columns_end) },
                         remaining \in { Suffix(json_part, columns_end + 1) } }) :
             columns_end \in { ColumnsEnd(json_part, 1, 0) } })

\* Parse _listing.js file.  Returns (columns, rows).
parse_listing(content) ==
    Only({ IF ~Truthy(args) THEN NoListing
           ELSE IF Find(args, "[") = 0 THEN NoListing
           ELSE Only({ SplitJsonPart(json_part) :
                         json_part \in { Suffix(args, Find(args, "[")) } }) :
             args \in { extract_jsonp_payload(content) } })

\* --- the contents of the listing files ---

Quoted(body) == "\"" \o body \o "\""

\* Names of the second column: plain, with balanced brackets, with an
\* opening bracket only, with a closing bracket only
ColumnNames == { "Name", "Name [x]", "[Name", "Na]me", "Name (a, b)" }

ThirdColumns == { "", ", \"Level\"", ", \"Lvl [1-30]\"" }

ColumnTexts ==
    { "[\"ID\", " \o Quoted(n) \o t \o "]" : n \in ColumnNames, t \in ThirdColumns }

RowTexts ==
    { "[]",
      "[[\"feat1\", \"Alertness\", \"1\"]]",
      "[[\"feat1\", \"Alertness\", \"1\"], [\"feat2\", \"Toughness [Heroic]\", \"2\"]]",
      "[[\"feat1\", \"Alert]ness\", \"1\"]]" }

Endings == { ")", ");", ") " }

ListingContent(columns, rows, ending) ==
    "od.reader.jsonp_data_listing(20250101, \"feat\", " \o columns \o ", " \o rows \o ending

ListingContents ==
    { ListingContent(c, r, e) : c \in ColumnTexts, r \in RowTexts, e \in Endings }

InitListing ==
    /\ source = NoSource
    /\ comp = NoDb
    /\ gdb = NoGrantsDb
    /\ review_csv = <<>>
    /\ last_summary = NoSummary
    /\ extract_report = NoReport
    /\ rc = << "none", 0 >>
    /\ clock = 0
    /\ runs = NoRuns
    /\ arg \in { [ op |-> "parse_listing", text |-> t ] : t \in ListingContents }
    /\ result = None

\* parse_listing(content)
ApplyParse ==
    /\ rc[1] = "none"
    /\ arg.op = "parse_listing"
    /\ result' = parse_listing(arg.text)
    /\ rc' = << "parse_listing", 0 >>
    /\ UNCHANGED << source, comp, gdb, review_csv, last_summary, extract_report, clock, runs, arg >>

NextListing == ApplyParse

SpecListing == InitListing /\ [][NextListing]_vars

\* The two top-level lists of the payload as JSON reads them: the value
\* that starts at the first opening bracket and, after the comma, the value
\* that follows it
TopLevelLists(content) ==
    LET Second(args, first, comma) ==
            << first.val, ParseValue(args, SkipWs(args, comma + 1)).val >>
        First(args, first) == Second(args, first, SkipWs(args, first.next))
        Payload(args) == First(args, ParseValue(args, Find(args, "[")))
    IN  Payload(extract_jsonp_payload(content))

\* C20: the listing is split by bracket depth.  For every listing payload
\* (..., [columns], [rows]) parse_listing returns as columns the first
\* top-level list and as rows the second top-level list, also when a column
\* value holds opening or closing brackets inside its string literal,
\* balanced or not.
C20_BracketDepthSplit ==
    rc[1] = "parse_listing" => result = TopLevelLists(arg.text)

\* ------------------------------------------------------------------------
\* build_compendium_db.py: what is derived from the descriptive text of a
\* power
\* ------------------------------------------------------------------------

\* Known conditions in 4e
CONDITIONS ==
    { "dazed", "stunned", "prone", "immobilized", "slowed", "dominated",
      "blinded", "deafened", "weakened", "petrified", "unconscious",
      "restrained", "grabbed", "marked", "surprised", "helpless",
      "dying", "dead", "bloodied" }

\* The alternatives (AC|Fortitude|Reflex|Will) in the order of the regex
DEFENSE_NAMES == << "AC", "Fortitude", "Reflex", "Will" >>

\* HTMLTextExtractor: the data between the tags, in document order.  In the
\* modelled bodies every "<" opens a tag; what follows a tag that is never
\* closed is not handed to handle_data.
RECURSIVE text_parts(_)
text_parts(html) ==
    LET Tag(open, close) ==
            (IF open > 1 THEN << Prefix(html, open - 1) >> ELSE <<>>)
                \o (IF close = 0 THEN <<>> ELSE text_parts(Suffix(html, open + close)))
        Open(open) ==
            IF open = 0 THEN << html >> ELSE Tag(open, Find(Suffix(html, open), ">"))
    IN  IF html = "" THEN <<>> ELSE Open(Find(html, "<"))

\* ' '.join(self.text_parts)
RECURSIVE JoinSpace(_)
JoinSpace(parts) ==
    IF Len(parts) = 0 THEN ""
    ELSE IF Len(parts) = 1 THEN parts[1]
    ELSE parts[1] \o " " \o JoinSpace(Tail(parts))

\* Convert HTML to plain text.
html_to_text(html) == IF ~Truthy(html) THEN "" ELSE JoinSpace(text_parts(html))

UpperChar(c) ==
    IF IsLower(c) THEN CharAt(UpperChars, Find(LowerChars, c)) ELSE c

\* str.capitalize()
capitalize(s) == IF Len(s) = 0 THEN "" ELSE UpperChar(CharAt(s, 1)) \o lower(Tail(s))

\* The first position from i on that holds no \s character
SkipReSpace(s, i) == SetMin({ j \in i..(Len(s) + 1) : ~ReSpace(CharAt(s, j)) })

\* vs\.?\s*(AC|Fortitude|Reflex|Will) with re.IGNORECASE, matched at
\* position i: the text of the group, or None
DefenseAt(text, i) ==
    LET Group(start) ==
            LET hits == SeqFilter(DEFENSE_NAMES,
                          LAMBDA d : lower(Slice(text, start, start + Len(d) - 1)) = lower(d))
            IN  IF Len(hits) = 0 THEN None
                ELSE Slice(text, start, start + Len(hits[1]) - 1)
    IN  IF lower(Slice(text, i, i + 1)) # "vs" THEN None
        ELSE Group(SkipReSpace(text, IF CharAt(text, i + 2) = "." THEN i + 3 ELSE i + 2))

\* re.search of the defense pattern: the group of the leftmost match, or
\* None
DefenseSearch(text) ==
    LET at == { i \in 1..Len(text) : DefenseAt(text, i) # None }
    IN  IF at = {} THEN None ELSE DefenseAt(text, SetMin(at))

\* text = search_text or html_to_text(html_body) if html_body else "" :
\* the conditional expression binds weaker than "or"
DefenseText(html_body, search_text) ==
    IF Truthy(html_body)
    THEN (IF Truthy(search_text) THEN search_text ELSE html_to_text(html_body))
    ELSE ""

\* Extract the defense targeted by an attack.  Returns (defense,
\* confidence) or (None, None)
extract_defense_targeted(html_body, search_text) ==
    Only({ IF defense = None THEN << None, None >>
           ELSE IF lower(defense) = "ac" THEN << "AC", "high" >>
           ELSE << capitalize(defense), "high" >> :
             defense \in { DefenseSearch(DefenseText(html_body, search_text)) } })

\* The five patterns of extract_conditions.  Each is a literal before the
\* group (\w+), its alternatives in the order in which the regex tries
\* them, and a literal after the group.
CONDITION_PATTERNS ==
    << [ before |-> << "target is " >>, after |-> "" ],
       [ before |-> << "targets are ", "targets is ", "target are ", "target is " >>,
         after |-> "" ],
       [ before |-> << "" >>, after |-> " (save ends)" ],
       [ before |-> << "and is ", "and the target is ", "and " >>, after |-> "" ],
       [ before |-> << "knocked " >>, after |-> "" ] >>

\* The first position from i on that holds no \w character
WordEnd(text, i) == SetMin({ j \in i..(Len(text) + 1) : ~IsWordChar(CharAt(text, j)) })

NoMatch == [ end |-> 0, word |-> "" ]

\* The match of a pattern that starts at position i: the position after it
\* and its group, or NoMatch
MatchAt(pattern, text, i) ==
    LET Fits(b) ==
            /\ Slice(text, i, i + Len(b) - 1) = b
            /\ WordEnd(text, i + Len(b)) > i + Len(b)
            /\ Slice(text, WordEnd(text, i + Len(b)),
                     WordEnd(text, i + Len(b)) + Len(pattern.after) - 1) = pattern.after
        Matched(b) ==
            [ end |-> WordEnd(text, i + Len(b)) + Len(pattern.after),
              word |-> Slice(text, i + Len(b), WordEnd(text, i + Len(b)) - 1) ]
        fitting == SeqFilter(pattern.before, Fits)
    IN  IF Len(fitting) = 0 THEN NoMatch ELSE Matched(fitting[1])

\* re.finditer(pattern, text_lower): the groups of the matches from
\* position i on, a match never overlapping the one before it
RECURSIVE FindIter(_, _, _)
FindIter(pattern, text, i) ==
    LET starts == { j \in i..Len(text) : MatchAt(pattern, text, j).end # 0 }
        From(m) == << m.word >> \o FindIter(pattern, text, m.end)
    IN  IF starts = {} THEN <<>> ELSE From(MatchAt(pattern, text, SetMin(starts)))

\* Extract conditions inflicted by a power: the values of sources, in the
\* order of the hits (found is the set of them)
extract_conditions(html_body, search_text) ==
    IF ~Truthy(html_body) /\ ~Truthy(search_text) THEN <<>>
    ELSE Only({ SeqFilter(Flatten([k \in 1..Len(CONDITION_PATTERNS) |->
                                     FindIter(CONDITION_PATTERNS[k], text_lower, 1)]),
                          LAMBDA word : word \in CONDITIONS) :
                  text_lower \in { lower(IF Truthy(search_text) THEN search_text
                                         ELSE html_to_text(html_body)) } })

\* Extract power usage type: At-Will, Encounter, Daily (of a string)
extract_power_type(type_raw) ==
    IF ~Truthy(type_raw) THEN None
    ELSE IF Contains(lower(type_raw), "at-will") \/ Contains(lower(type_raw), "atwill")
    THEN "At-Will"
    ELSE IF Contains(lower(type_raw), "enc") THEN "Encounter"
    ELSE IF Contains(lower(type_raw), "daily") THEN "Daily"
    ELSE None

\* ------------------------------------------------------------------------
\* build_compendium_db.py: the rows of a category, written one by one
\* A store holds the rows of powers and feats, of the three tag relations
\* (each row <<power_id, tag>>) and of _parse_log in rowid order, the rows of
\* _categories, and the lines printed for rows that raised an error.
\* ------------------------------------------------------------------------

\* A JSON number in a cell.  items holds str(n), which is also what SQLite
\* keeps when the number goes into a TEXT column; num marks the Python
\* value as an int.
Num(n) == [ list |-> FALSE, items |-> << IntToStr(n) >>, num |-> n ]

IsNum(cell) == "num" \in DOMAIN cell

\* A JSON null in a cell
NullCell == Str(None)

\* The truth value of the normalized value of a cell
CellTruthy(cell) == IF IsNum(cell) THEN cell.num # 0 ELSE Truthy(normalize_value(cell))

\* row[idx] if len(row) > idx else ''
CellAt(columns, row, name, default) ==
    IF Len(row) > col_map_get(columns, name, default)
    THEN row[col_map_get(columns, name, default) + 1]
    ELSE Str("")

\* dict.get(key, '') of a dict given as its assignments
GetText(dict, key) == IF DictGet(dict, key) = None THEN "" ELSE DictGet(dict, key)

EmptyStore ==
    [ powers |-> <<>>, feats |-> <<>>,
      power_keywords |-> <<>>, power_damage_types |-> <<>>, power_conditions |-> <<>>,
      parse_log |-> <<>>, categories |-> {}, printed |-> <<>> ]

\* except Exception as e: print(...) -- the row is given up where it is
Failed(store, table_name, row) ==
    [ store EXCEPT !.printed = Append(@, [ table |-> table_name, row |-> row ]) ]

\* INSERT into a tag table that keeps every row it is given
InsertOrIgnore_KeepAll(rows, row) == Append(rows, row)

\* INSERT OR IGNORE into a tag table, whose primary key is the whole row
InsertOrIgnore(rows, row) == IF InSeq(row, rows) THEN rows ELSE Append(rows, row)

\* for tag in tags: INSERT OR IGNORE ... VALUES (entry_id, tag)
RECURSIVE InsertTags(_, _, _)
InsertTags(rows, entry_id, tags) ==
    IF Len(tags) = 0 THEN rows
    ELSE InsertTags(InsertOrIgnore(rows, << entry_id, Head(tags) >>), entry_id, Tail(tags))

LogEntry(entry_id, field, value, src, confidence) ==
    [ entry_id |-> entry_id, field |-> field, value |-> value, source |-> src,
      confidence |-> confidence ]

\* found = set() and found.add(word): each value once, here in the order of
\* its first hit
RECURSIVE Dedup(_)
Dedup(values) ==
    IF Len(values) = 0 THEN <<>>
    ELSE << Head(values) >> \o Dedup(SeqFilter(Tail(values), LAMBDA v : v # Head(values)))

\* insert_powers after the INSERT of the main record: keywords, damage
\* types, conditions and their log entries.  keywords_raw.split raises for
\* a number.  The damage types and the conditions of one row are written
\* in the iteration order of a Python set; the model writes them in the
\* order of their hits.
TagPower(store, row, entry_id, keywords, html_body, search_text, order, defense) ==
    IF IsNum(keywords) /\ CellTruthy(keywords) THEN Failed(store, "powers", row)
    ELSE Only({ [ store EXCEPT
                    !.power_keywords = InsertTags(@, entry_id, kws),
                    !.power_damage_types = InsertTags(@, entry_id, dts),
                    !.power_conditions = InsertTags(@, entry_id, Dedup(cds)),
                    !.parse_log = @
                        \o [i \in 1..Len(dts) |->
                              LogEntry(entry_id, "damage_type", dts[i], "keyword", "high")]
                        \o [i \in 1..Len(cds) |->
                              LogEntry(entry_id, "condition", cds[i], "pattern", "medium")]
                        \o (IF Truthy(defense[1])
                            THEN << LogEntry(entry_id, "defense_targeted", defense[1], "regex",
                                             defense[2]) >>
                            ELSE <<>>) ] :
                  kws \in { IF CellTruthy(keywords)
                            THEN SplitKeywords(normalize_value(keywords)) ELSE <<>> },
                  dts \in { IF CellTruthy(keywords)
                            THEN extract_damage_types(normalize_value(keywords), order)
                            ELSE <<>> },
                  cds \in { extract_conditions(html_body, search_text) } })

\* insert_powers from the derived fields to the INSERT OR REPLACE of the
\* main record: extract_power_type raises for a number, the INSERT for a
\* name that is None
WritePower(store, row, cells, html_body, search_text, order) ==
    IF IsNum(cells.type) /\ CellTruthy(cells.type) THEN Failed(store, "powers", row)
    ELSE IF normalize_value(cells.name) = None THEN Failed(store, "powers", row)
    ELSE Only({ TagPower([ store EXCEPT !.powers = InsertOrReplace(@,
                                [ id |-> normalize_value(cells.id),
                                  name |-> normalize_value(cells.name),
                                  type_raw |-> normalize_value(cells.type),
                                  keywords_raw |-> normalize_value(cells.keywords),
                                  html_body |-> html_body, search_text |-> search_text,
                                  power_usage |-> IF CellTruthy(cells.type)
                                                  THEN extract_power_type(normalize_value(cells.type))
                                                  ELSE None,
                                  defense_targeted |-> defense[1] ]) ],
                         row, normalize_value(cells.id), cells.keywords, html_body,
                         search_text, order, defense) :
                  defense \in { extract_defense_targeted(html_body, search_text) } })

\* One pass of the loop of insert_powers.  Of the listing fields the id,
\* the name, the type and the keywords are followed; the other fields go
\* into the record as they are read.  row[col_map.get('ID', 0)] raises for
\* a row that is too short.
PowerRow(store, columns, row, html_bodies, search_texts, order) ==
    IF Len(row) <= col_map_get(columns, "ID", 0) THEN Failed(store, "powers", row)
    ELSE Only({ WritePower(store, row, cells, GetText(html_bodies, normalize_value(cells.id)),
                           GetText(search_texts, normalize_value(cells.id)), order) :
                  cells \in { [ id |-> row[col_map_get(columns, "ID", 0) + 1],
                                name |-> CellAt(columns, row, "Name", 1),
                                type |-> CellAt(columns, row, "Type", 4),
                                keywords |-> CellAt(columns, row, "Keywords", 6) ] } })

\* One pass of the loop of insert_generic: the INSERT OR REPLACE raises for
\* a name that is None
GenericRow(store, table_name, columns, row, col_mapping) ==
    Only({ IF values.name = None THEN Failed(store, table_name, row)
           ELSE [ store EXCEPT ![table_name] = InsertOrReplace(@, values) ] :
             values \in { GenericValues(columns, row, col_mapping) } })

\* --- the listing rows, the data files and the index of the categories ---

\* Bound on the rows of the power listing, and of the feat listing
MaxRows == 3

MaxGenericRows == 2

PowerCells(id, name, type, keywords) ==
    << Str(id), name, Str("Wizard"), Str("1"), type, Str("Standard Action"), keywords,
       Str("Player's Handbook") >>

\* Rows of the power listing: two well-formed rows of power1, a well-formed
\* row of power2 without keywords, a row of one cell, a row whose name is
\* null, a row whose keywords are a number
PowerRows ==
    { PowerCells("power1", Str("Flame Strike"), Str("Daily Attack"), Str("Fire, Implement")),
      PowerCells("power1", Str("Frost Strike"), Str("Encounter Attack"),
                 List(<< "Cold, Fire", "x" >>)),
      PowerCells("power2", Str("Magic Missile"), Str("At-Will Attack"), Str("")),
      << Str("power3") >>,
      PowerCells("power4", NullCell, Str("Daily Attack"), Str("Fire")),
      PowerCells("power5", Str("Odd Power"), Str("Daily Attack"), Num(5)) }

\* Rows that raise before anything is written: no cell at all, a number as
\* type
EarlyFailures ==
    { <<>>, PowerCells("power6", Str("Odd Type"), Num(7), Str("Fire")) }

FeatRows ==
    { << Str("feat1"), Str("Alertness"), Str("Heroic"), Str(""), Str("PHB") >>,
      << Str("feat2"), NullCell, Str("Heroic"), Str(""), Str("PHB") >>,
      << Str("feat3") >> }

\* html_bodies (dataN.js) and search_texts (_index.js) of the power
\* category
PowerTexts ==
    { [ html_bodies |-> <<>>, search_texts |-> <<>> ],
      [ html_bodies |->
          << << "power1", "<p>Attack: vs. AC</p><p>Hit: the target is dazed (save ends).</p>" >>,
             << "power5", "<p>Intelligence vs. Will</p>" >> >>,
        search_texts |-> <<>> ],
      [ html_bodies |-> <<>>,
        search_texts |->
          << << "power1", "attack vs. reflex and the target is knocked prone" >> >> ],
      [ html_bodies |->
          << << "power1", "<b>Close burst 1</b> VS. fortitude" >>,
             << "power2", "<p>Dexterity vs Reflex</p>" >> >>,
        search_texts |-> << << "power1", "vs.  will; targets are slowed" >> >> ] }

InitRows ==
    /\ source = NoSource
    /\ comp = NoDb
    /\ gdb = NoGrantsDb
    /\ review_csv = <<>>
    /\ last_summary = NoSummary
    /\ extract_report = NoReport
    /\ rc = << "build_rows", 0 >>
    /\ clock = 0
    /\ runs = NoRuns
    /\ arg \in { [ op |-> "build_rows", order |-> o, texts |-> t, i |-> 1, rows |-> <<>>,
                   nodata |-> {} ] : o \in HashOrders, t \in PowerTexts }
    /\ result = EmptyStore

\* The next row of the power listing goes through the loop of insert_powers
InsertPowerRow ==
    /\ arg.op = "build_rows"
    /\ category_table_map[arg.i][1] = "power"
    /\ Len(arg.rows) < MaxRows
    /\ \E row \in PowerRows \cup EarlyFailures :
          /\ result' = PowerRow(result, CATEGORY_SCHEMAS.power, row, arg.texts.html_bodies,
                                arg.texts.search_texts, arg.order)
          /\ arg' = [arg EXCEPT !.rows = Append(@, row)]
    /\ UNCHANGED << source, comp, gdb, review_csv, last_summary, extract_report, rc, clock,
                    runs >>

\* The next row of the feat listing goes through the loop of insert_generic
InsertGenericRow ==
    /\ arg.op = "build_rows"
    /\ category_table_map[arg.i][1] = "feat"
    /\ Len(arg.rows) < MaxGenericRows
    /\ \E row \in FeatRows :
          /\ result' = GenericRow(result, "feats", CATEGORY_SCHEMAS.feat, row,
                                  generic_mappings.feats)
          /\ arg' = [arg EXCEPT !.rows = Append(@, row)]
    /\ UNCHANGED << source, comp, gdb, review_csv, last_summary, extract_report, rc, clock,
                    runs >>

\* if not rows: print("no data"); continue -- the listing of the category is
\* missing, empty or unparseable (parse_listing returned [], [])
NoData ==
    /\ arg.op = "build_rows"
    /\ category_table_map[arg.i][1] \in { "power", "feat" }
    /\ arg.rows = <<>>
    /\ arg' = [arg EXCEPT !.i = @ + 1, !.nodata = @ \cup { category_table_map[arg.i][1] }]
    /\ UNCHANGED << source, comp, gdb, review_csv, last_summary, extract_report, rc, clock,
                    runs, result >>

\* After the last row: the _categories record, then the next category
EndCategory ==
    /\ arg.op = "build_rows"
    /\ category_table_map[arg.i][1] \in { "power", "feat" }
    /\ arg.rows # <<>>
    /\ result' = [result EXCEPT !.categories =
                     @ \cup { << category_table_map[arg.i][1], Len(arg.rows),
                                 category_table_map[arg.i][2] >> }]
    /\ arg' = [arg EXCEPT !.i = @ + 1, !.rows = <<>>]
    /\ UNCHANGED << source, comp, gdb, review_csv, last_summary, extract_report, rc, clock,
                    runs >>

NextRows == InsertPowerRow \/ InsertGenericRow \/ NoData \/ EndCategory

SpecRows == InitRows /\ [][NextRows]_vars

\* ------------------------------------------------------------------------
\* Properties of the rows written
\* ------------------------------------------------------------------------

\* The category being written, its table and its declared columns
Category == category_table_map[arg.i][1]

CategoryTable == category_table_map[arg.i][2]

Writing == arg.op = "build_rows" /\ Category \in { "power", "feat" }

\* A cell that holds a text: a string, or a list with a display value
TextCell(cell) == ~IsNum(cell) /\ normalize_value(cell) # None

\* A row with one text cell for every declared column of its category
WellFormed(category, row) ==
    /\ Len(row) = Len(CATEGORY_SCHEMAS[category])
    /\ \A i \in 1..Len(row) : TextCell(row[i])

\* The id that a row carries, None when it has no first cell
RowId(row) == IF Len(row) = 0 THEN None ELSE normalize_value(row[1])

StoredIds(table_name) == { result[table_name][i].id : i \in 1..Len(result[table_name]) }

Logged21(table_name, row) ==
    \E i \in 1..Len(result.printed) :
        result.printed[i] = [ table |-> table_name, row |-> row ]

\* C21: row-level recovery.  Of the rows of the category written so far,
\* every malformed row (too short, a cell of the wrong shape, a null name)
\* is logged and has left no entity, and every well-formed row before or
\* after it is stored; a category without data leaves its table empty and
\* the categories after it are written all the same.
C21_RowRecovery ==
    Writing =>
        /\ \A k \in 1..Len(arg.rows) :
              IF WellFormed(Category, arg.rows[k])
              THEN RowId(arg.rows[k]) \in StoredIds(CategoryTable)
              ELSE /\ Logged21(CategoryTable, arg.rows[k])
                   /\ RowId(arg.rows[k]) \notin StoredIds(CategoryTable)
        /\ ("power" \in arg.nodata => result.powers = <<>>)

\* The three tag relations of the store
TagKinds == { "power_keywords", "power_damage_types", "power_conditions" }

\* The parse-log entries of a tag: same entity, the field of the tag kind,
\* the derived value and a confidence tier
TagLog(field, tag) ==
    { i \in 1..Len(result.parse_log) :
        /\ result.parse_log[i].entry_id = tag[1]
        /\ result.parse_log[i].field = field
        /\ result.parse_log[i].value = tag[2]
        /\ result.parse_log[i].confidence \in { "high", "medium", "low" } }

\* C22: tag relations are sets while hits are logged one by one.  Each tag
\* relation holds a pair <<entity id, tag>> at most once however often the
\* tag is hit, and every stored damage-type or condition tag has at least
\* one parse-log entry of the same entity with the derived value and a
\* confidence tier.
C22_TagSets ==
    arg.op = "build_rows" =>
        /\ \A kind \in TagKinds :
              \A i, j \in 1..Len(result[kind]) : result[kind][i] = result[kind][j] => i = j
        /\ \A i \in 1..Len(result.power_damage_types) :
              TagLog("damage_type", result.power_damage_types[i]) # {}
        /\ \A i \in 1..Len(result.power_conditions) :
              TagLog("condition", result.power_conditions[i]) # {}

\* A condition hit by several patterns of one row and a damage type hit by
\* two rows of the same power: each is stored once and logged more than
\* once
C22_Witness ==
    /\ arg.op = "build_rows"
    /\ \E i \in 1..Len(result.power_conditions) :
          Cardinality(TagLog("condition", result.power_conditions[i])) > 1
    /\ \E i \in 1..Len(result.power_damage_types) :
          Cardinality(TagLog("damage_type", result.power_damage_types[i])) > 1

\* The descriptive text of a stored power: its search text when that is
\* non-empty, otherwise the plain text of its markup body
DescriptiveText(power) ==
    IF Truthy(power.search_text) THEN power.search_text ELSE html_to_text(power.html_body)

\* The defense names that the text mentions as "vs." followed by the name,
\* in any letter case, each with the position of its "vs."
Mentions(text) ==
    { << i, d >> \in (1..Len(text)) \X Range(DEFENSE_NAMES) :
        /\ lower(Slice(text, i, i + 2)) = "vs."
        /\ lower(Slice(text, SkipReSpace(text, i + 3),
                       SkipReSpace(text, i + 3) + Len(d) - 1)) = lower(d) }

\* C23: targeted defense.  A stored power whose descriptive text contains
\* "vs." followed by one of the four defense names in any letter case has
\* that name in canonical case as its defense, logged with high confidence,
\* also when it has a search text and an empty markup body; any other power
\* has no defense; the defense is never a value outside the four.
C23_TargetedDefense ==
    arg.op = "build_rows" =>
        \A k \in 1..Len(result.powers) :
            LET power == result.powers[k]
                first == { m \in Mentions(DescriptiveText(power)) :
                             \A n \in Mentions(DescriptiveText(power)) : m[1] <= n[1] }
            IN  /\ power.defense_targeted \in Range(DEFENSE_NAMES) \cup { None }
                /\ first = {} => power.defense_targeted = None
                /\ \A m \in first :
                      /\ power.defense_targeted = m[2]
                      /\ \E i \in 1..Len(result.parse_log) :
                            result.parse_log[i] =
                                LogEntry(power.id, "defense_targeted", m[2], "regex", "high")

\* ------------------------------------------------------------------------
\* The order of the name variants
\* ------------------------------------------------------------------------

\* The candidates that the name search accepts for one variant: the stored
\* entities that the index lists under it, of an expected category when the
\* type hint has any, and the stored entities of an expected category whose
\* own name equals it
Accepted(key, type_hint) ==
    LET prefixes == AcceptablePrefixes(type_hint)
        tables == { PREFIX_TO_TABLE[i][2] :
                      i \in { j \in 1..Len(PREFIX_TO_TABLE) :
                                \/ InSeq(PREFIX_TO_TABLE[j][1], prefixes)
                                \/ InSeq(PREFIX_TO_TABLE[j][1] \o "s", prefixes) } }
    IN  { eid \in Range(name_to_ids(comp, key)) \cap all_valid_ids(comp) :
            Len(prefixes) = 0 \/ AnyPrefix(eid, prefixes) }
        \cup { eid \in all_valid_ids(comp) :
                 /\ AnyPrefix(eid, prefixes)
                 /\ \E t \in tables \cap DOMAIN comp.tables \cap RESOLVER_TABLES :
                       \E r \in Range(comp.tables[t]) : r.id = eid /\ lower(r.name) = key }

\* The positions of the variants of the searched name that have an accepted
\* candidate
Winning ==
    { k \in 1..Len(name_search_variants(arg.name)) :
        Accepted(name_search_variants(arg.name)[k], arg.type_hint) # {} }

\* C24: first variant wins.  The variants start with the lowercased name;
\* the id that search_by_name returns is a candidate accepted, by the index
\* or by the direct table search, for the earliest variant that has any
\* accepted candidate, and no id is returned when no variant has one.
C24_FirstVariantWins ==
    rc[1] = "search_by_name" =>
        /\ name_search_variants(arg.name)[1] = lower(strip(arg.name))
        /\ Winning = {} => result = None
        /\ \A k \in Winning :
              (\A j \in Winning : k <= j) =>
                  result \in Accepted(name_search_variants(arg.name)[k], arg.type_hint)

\* The first variant is accepted by the direct table search only, a later
\* variant has another candidate accepted by the index, and the search has
\* returned the candidate of the first
C24_Witness ==
    /\ rc[1] = "search_by_name"
    /\ 1 \in Winning
    /\ name_to_ids(comp, name_search_variants(arg.name)[1]) = <<>>
    /\ \E k \in Winning :
          /\ k > 1
          /\ result \notin Accepted(name_search_variants(arg.name)[k], arg.type_hint)
    /\ result \in Accepted(name_search_variants(arg.name)[1], arg.type_hint)

\* ------------------------------------------------------------------------
\* The resolver re-run after the data files of the store were replaced
\* ------------------------------------------------------------------------

\* The sources of the re-run: one XML file, no override file, an index that
\* lists armor5 and power435, and any of the listings
RerunSources ==
    { s \in Sources :
        /\ s.xml = << ExamplePower, ExampleFeat, BlackIronArmor >>
        /\ ~s.manual.exists
        /\ s.name_index.exists
        /\ Len(s.name_index.entries[1].ids) = 1 }

InitRerun ==
    /\ source \in RerunSources
    /\ comp = NoDb
    /\ gdb = NoGrantsDb
    /\ review_csv = <<>>
    /\ last_summary = NoSummary
    /\ extract_report = NoReport
    /\ rc = << "none", 0 >>
    /\ clock = 0
    /\ runs = NoRuns
    /\ arg = NoArg
    /\ result = None

\* The listing files that build_compendium_db.py reads are replaced by
\* those of another release of the data, after a run of the resolver
ReplaceData ==
    /\ rc[1] = "resolve"
    /\ source' \in RerunSources \ { source }
    /\ rc' = << "none", 0 >>
    /\ UNCHANGED << comp, gdb, review_csv, last_summary, extract_report, clock, runs, arg, result >>

NextRerun == RunBuild \/ RunExtract \/ RunResolve \/ ReplaceData

SpecRerun == InitRerun /\ [][NextRerun]_vars

\* The resolved id that the audit log records for reference x, None when it
\* records none
LoggedId(x) ==
    IF \E row \in AuditRows : row.xml_id = x
    THEN (CHOOSE row \in AuditRows : row.xml_id = x).resolved_compendium_id
    ELSE None

\* C25: edges agree with the audit log.  Once the resolver has run, the
\* granter_compendium_id of every edge, and the granted_compendium_id of
\* every grant, is the resolved id that the audit log records for the
\* edge's external reference, and is null when the log records none; also
\* after a re-run against a store built from other data.
C25_EdgesAgreeWithLog ==
    (gdb.has_log /\ rc = << "resolve", 0 >>) =>
        /\ \A g \in Range(gdb.grants) :
              /\ g.granter_compendium_id = LoggedId(g.granter_xml_id)
              /\ g.granted_compendium_id = LoggedId(g.granted_xml_id)
        /\ \A r \in Range(gdb.stat_additions) \cup Range(gdb.modifies) :
              r.granter_compendium_id = LoggedId(r.granter_xml_id)

\* ------------------------------------------------------------------------
\* The fields of an audit record
\* ------------------------------------------------------------------------

\* The method that goes with each status
MethodOf ==
    [ matched |-> "id", matched_manual |-> "manual", matched_name_search |-> "name_search",
      not_found |-> None, unmappable |-> None ]

\* C26: audit record consistency.  The status of every audit record is one
\* of matched, matched_name_search, matched_manual, not_found, unmappable;
\* its resolved id is non-null exactly for the three matched statuses; its
\* method is id, manual, name_search for these and null for the other two;
\* its unmappable reason is non-null exactly when the status is unmappable.
C26_RecordConsistency ==
    \A row \in AuditRows :
        /\ row.status \in DOMAIN MethodOf
        /\ row.resolved_compendium_id # None
              <=> row.status \in { "matched", "matched_manual", "matched_name_search" }
        /\ row.resolution_method = MethodOf[row.status]
        /\ row.unmappable_reason # None <=> row.status = "unmappable"

\* One audit log holds records of four statuses, an unmappable one and a
\* not_found one among them
C26_Witness ==
    /\ rc = << "resolve", 0 >>
    /\ Cardinality({ row.status : row \in AuditRows }) >= 4
    /\ { "unmappable", "not_found", "matched" } \subseteq { row.status : row \in AuditRows }

\* ------------------------------------------------------------------------
\* The occurrence counts of an audit record
\* ------------------------------------------------------------------------

\* The edges of a table in which x stands in the role given by field
EdgesWith(rows, field, x) == { i \in 1..Len(rows) : rows[i][field] = x }

\* C27: occurrence accounting.  In every audit record the occurrence count
\* is the sum of the four role counts, and each role count is the number of
\* edges in which the reference stands in that role: granter of a grant,
\* granted target of a grant, granter of a stat addition, granter of a
\* modification; a reference that is granter and granted target of one
\* grant is counted in both roles.
C27_OccurrenceAccounting ==
    rc = << "resolve", 0 >> =>
        \A row \in AuditRows :
            /\ row.occurrence_count =
                  row.as_granter_in_grants + row.as_granted_in_grants
                      + row.in_statadd_count + row.in_modify_count
            /\ row.as_granter_in_grants
                  = Cardinality(EdgesWith(gdb.grants, "granter_xml_id", row.xml_id))
            /\ row.as_granted_in_grants
                  = Cardinality(EdgesWith(gdb.grants, "granted_xml_id", row.xml_id))
            /\ row.in_statadd_count
                  = Cardinality(EdgesWith(gdb.stat_additions, "granter_xml_id", row.xml_id))
            /\ row.in_modify_count
                  = Cardinality(EdgesWith(gdb.modifies, "granter_xml_id", row.xml_id))

\* The reference of an audit record is granter and granted target of the
\* same grant, and the record counts it in both roles
C27_Witness ==
    /\ rc = << "resolve", 0 >>
    /\ \E row \in AuditRows :
          /\ \E g \in Range(gdb.grants) :
                g.granter_xml_id = row.xml_id /\ g.granted_xml_id = row.xml_id
          /\ row.as_granter_in_grants = 2
          /\ row.as_granted_in_grants = 1
          /\ row.occurrence_count = 4

\* ------------------------------------------------------------------------
\* The category of a name-search match
\* ------------------------------------------------------------------------

\* The resolution of x reaches the name search
ReachesNameSearch(x) ==
    Mappable(x) /\ ~DirectlyResolvable(x) /\ ValidOverride(x) = None /\ Truthy(DisplayName(x))

\* The index lists stored entities under some variant of the name of x, and
\* under every variant only entities of categories not expected for x
OnlyOtherCategories(x) ==
    LET keys == name_search_variants(DisplayName(x))
    IN  /\ \E k \in 1..Len(keys) : IndexedUnder(keys[k]) # {}
        /\ \A k \in 1..Len(keys) : ExpectedIndexed(x, keys[k]) = <<>>

\* A stored entity of an expected category bears some variant of the name of x
VariantNamed(x) ==
    LET keys == name_search_variants(DisplayName(x))
    IN  \E k \in 1..Len(keys) : EntityNamed(x, keys[k])

\* The resolved id of a name-search record is stored and of a category
\* expected for the type tag of its reference
InCategory(row) ==
    row.status = "matched_name_search" =>
        /\ row.resolved_compendium_id \in all_valid_ids(comp)
        /\ InSeq(CategoryPrefix(row.resolved_compendium_id), AcceptablePrefixes(TypeTag(row.xml_id)))

TagsOf(kind, entry_id) ==
    { result[kind][i][2] : i \in { j \in 1..Len(result[kind]) : result[kind][j][1] = entry_id } }

\* The position of the last row written that carries the id
LastRowOf(entry_id) ==
    CHOOSE k \in 1..Len(arg.rows) :
        /\ RowId(arg.rows[k]) = entry_id
        /\ \A j \in (k + 1)..Len(arg.rows) : RowId(arg.rows[j]) # entry_id

\* C29: stored tags match the stored entity.  While the well-formed rows
\* of the power listing are written, rows that repeat an id included, each
\* id has exactly one stored power, that of the last row with the id, and
\* the keyword, damage-type and condition tags stored for the id are
\* exactly those derived from the stored power.
C29_TagsMatchEntity ==
    (Writing /\ Category = "power" /\ \A k \in 1..Len(arg.rows) : WellFormed("power", arg.rows[k]))
        => \A entry_id \in StoredIds("powers") :
              /\ Cardinality({ i \in 1..Len(result.powers) : result.powers[i].id = entry_id }) = 1
              /\ \A i \in 1..Len(result.powers) :
                    result.powers[i].id = entry_id =>
                        /\ result.powers[i].name
                              = normalize_value(arg.rows[LastRowOf(entry_id)][2])
                        /\ TagsOf("power_keywords", entry_id)
                              = IF Truthy(result.powers[i].keywords_raw)
                                THEN Range(SplitKeywords(result.powers[i].keywords_raw))
                                ELSE {}
                        /\ TagsOf("power_damage_types", entry_id)
                              = IF Truthy(result.powers[i].keywords_raw)
                                THEN Range(extract_damage_types(result.powers[i].keywords_raw,
                                                                arg.order))
                                ELSE {}
                        /\ TagsOf("power_conditions", entry_id)
                              = Range(extract_conditions(result.powers[i].html_body,
                                                         result.powers[i].search_text))

\* ------------------------------------------------------------------------
\* What a row that raised an error leaves behind
\* ------------------------------------------------------------------------

\* The rows of the power listing written so far for which an error was
\* printed and whose id no other row written so far carries
Skipped ==
    { k \in 1..Len(arg.rows) :
        /\ Logged21("powers", arg.rows[k])
        /\ \A j \in 1..Len(arg.rows) : RowId(arg.rows[j]) = RowId(arg.rows[k]) => j = k }

\* C30: skipped rows leave no trace.  A power row whose processing raised
\* an error at any step, also after the main record was inserted, leaves
\* no entity, no keyword, damage-type or condition tag and no parse-log
\* entry in the store.
C30_NoTrace ==
    (Writing /\ Category = "power") =>
        \A k \in Skipped :
            /\ RowId(arg.rows[k]) \notin StoredIds("powers")
            /\ \A kind \in TagKinds : TagsOf(kind, RowId(arg.rows[k])) = {}
            /\ \A i \in 1..Len(result.parse_log) :
                  result.parse_log[i].entry_id # RowId(arg.rows[k])

====
